---- MODULE Spec2Model ----
(***************************************************************************)
(* Model of the tidepool Python client (src/tidepool/client.py): the       *)
(* request/retry orchestrator of TidepoolClient and AsyncTidepoolClient,   *)
(* the status-to-error mapping, and the public operations built on them.   *)
(*                                                                         *)
(* Conventions                                                             *)
(*  - A Python string is a sequence of tokens; the token " " is one        *)
(*    whitespace character, every other token is a run of non-whitespace   *)
(*    text.  str.strip() removes leading and trailing " " tokens, and      *)
(*    f-string interpolation is sequence concatenation.                    *)
(*  - A Python / JSON value is a record [t, b, n, s, items] (see Val).     *)
(*  - Delays are durations in milliseconds (0.5 s = 500), non-negative.    *)
(***************************************************************************)
EXTENDS Integers, Sequences, FiniteSets, TLC

\* ------------------------------------------------------------------ bounds
\* largest value assigned to client.max_retries
MaxRetriesBound == 3
\* the number of documents in a batch
MaxBatch == 3

\* ------------------------------------------------------- program constants
DEFAULT_MAX_RETRIES == 3
DEFAULT_BASE_DELAY == 500
DEFAULT_MAX_DELAY == 10000
\* status_code = None of TidepoolError.__init__
NoStatus == 0

\* ----------------------------------------------------------------- strings
Strip(s) ==
  LET nonws == {i \in 1..Len(s) : s[i] # " "}
  IN IF nonws = {} THEN <<>>
     ELSE LET lo == CHOOSE i \in nonws : \A j \in nonws : i <= j
              hi == CHOOSE i \in nonws : \A j \in nonws : j <= i
          IN SubSeq(s, lo, hi)

DigitToken(d) == <<"0", "1", "2", "3", "4", "5", "6", "7", "8", "9">>[d + 1]

RECURSIVE FormatInt(_)
FormatInt(n) ==
  IF n < 10 THEN <<DigitToken(n)>>
  ELSE Append(FormatInt(n \div 10), DigitToken(n % 10))

Pow2(k) == 2 ^ k

Min(a, b) == IF a <= b THEN a ELSE b

\* ------------------------------------------------------------------ values
Val(t, b, n, s, items) == [t |-> t, b |-> b, n |-> n, s |-> s, items |-> items]
None == Val("None", FALSE, 0, <<>>, <<>>)
Bool(b) == Val("bool", b, 0, <<>>, <<>>)
Num(n) == Val("int", FALSE, n, <<>>, <<>>)
Str(s) == Val("str", FALSE, 0, s, <<>>)
List(items) == Val("list", FALSE, 0, <<>>, items)
\* a dict is a sequence of entries; an entry carries its key in s and its
\* value as the single element of items
Entry(k, v) == Val("entry", FALSE, 0, k, <<v>>)
Dict(entries) == Val("dict", FALSE, 0, <<>>, entries)
\* the body of a response is not valid JSON: response.json() raises ValueError
InvalidJson == Val("invalid", FALSE, 0, <<>>, <<>>)

HasKey(d, k) == \E i \in 1..Len(d.items) : d.items[i].s = k
\* dict.get(k, default)
GetOr(d, k, default) ==
  IF HasKey(d, k)
  THEN d.items[CHOOSE i \in 1..Len(d.items) : d.items[i].s = k].items[1]
  ELSE default
\* dict.get(k)
Get(d, k) == GetOr(d, k, None)

\* Python truthiness, as used by `a or b` and `if not x`
Truthy(v) ==
  CASE v.t = "None" -> FALSE
    [] v.t = "bool" -> v.b
    [] v.t = "int" -> v.n # 0
    [] v.t = "float" -> v.n # 0 \/ v.s # <<>>
    [] v.t = "str" -> v.s # <<>>
    [] v.t \in {"list", "dict"} -> v.items # <<>>
    [] OTHER -> TRUE

\* a or b
Or(a, b) == IF Truthy(a) THEN a ELSE b

\* ------------------------------------------------------------------ errors
Exc(cls, message, status_code) ==
  [cls |-> cls, message |-> message, status_code |-> status_code]
NoError == Exc("None", <<>>, NoStatus)
TidepoolError(message, status_code) == Exc("TidepoolError", message, status_code)
ValidationError(message, status_code) == Exc("ValidationError", message, status_code)
NotFoundError(message, status_code) == Exc("NotFoundError", message, status_code)
ServiceUnavailableError(message, status_code) ==
  Exc("ServiceUnavailableError", message, status_code)
\* isinstance(e, TidepoolError)
IsTidepoolError(e) ==
  e.cls \in {"TidepoolError", "ValidationError", "NotFoundError",
             "ServiceUnavailableError"}
\* str(e): the message of an exception, "None" for None
StrOfError(e) == IF e.cls = "None" THEN <<"None">> ELSE e.message

Pending == [kind |-> "pending", value |-> None, exc |-> NoError]
Return(v) == [kind |-> "return", value |-> v, exc |-> NoError]
Raise(e) == [kind |-> "raise", value |-> None, exc |-> e]

\* --------------------------------------------------- executor and outcomes
Response(status, text, json) == [status |-> status, text |-> text, json |-> json]
NoResponse == Response(0, <<>>, InvalidJson)

BodyEmpty == [text |-> <<>>, json |-> InvalidJson]
BodyBlank == [text |-> <<" ">>, json |-> InvalidJson]
BodyNotJson == [text |-> <<"not-json">>, json |-> InvalidJson]
BodyNull == [text |-> <<"null">>, json |-> None]
BodyOk == [text |-> <<"{\"ok\":true}">>,
           json |-> Dict(<<Entry(<<"ok">>, Bool(TRUE))>>)]
BodyError == [text |-> <<"{\"error\":\"busy\"}">>,
              json |-> Dict(<<Entry(<<"error">>, Str(<<"busy">>))>>)]
BodyMessage == [text |-> <<"{\"message\":\"down\"}">>,
                json |-> Dict(<<Entry(<<"message">>, Str(<<"down">>))>>)]
BodyResults ==
  [text |-> <<"{\"namespace\":\"docs\",\"results\":[{\"id\":\"a\",\"dist\":1}]}">>,
   json |-> Dict(<<Entry(<<"namespace">>, Str(<<"docs">>)),
                   Entry(<<"results">>,
                         List(<<Dict(<<Entry(<<"id">>, Str(<<"a">>)),
                                       Entry(<<"dist">>, Num(1))>>)>>))>>)]
BodyStatus ==
  [text |-> <<"{\"status\":\"healthy\",\"namespace\":\"docs\",\"dimensions\":3,\"last_run\":\"2025-01-01T00:00:00Z\"}">>,
   json |-> Dict(<<Entry(<<"status">>, Str(<<"healthy">>)),
                   Entry(<<"namespace">>, Str(<<"docs">>)),
                   Entry(<<"dimensions">>, Num(3)),
                   Entry(<<"last_run">>, Str(<<"2025-01-01T00:00:00", "Z">>))>>)]

Replies ==
  {Response(200, b.text, b.json) :
     b \in {BodyOk, BodyNotJson, BodyEmpty, BodyNull, BodyResults, BodyStatus}}
  \cup {Response(204, b.text, b.json) : b \in {BodyEmpty, BodyOk}}
  \cup {Response(st, BodyBlank.text, BodyBlank.json) : st \in {302, 429}}
  \cup {Response(st, BodyError.text, BodyError.json) : st \in {400, 404, 413, 500, 503}}
  \cup {Response(st, BodyMessage.text, BodyMessage.json) : st \in {413, 503}}
  \cup {Response(st, BodyEmpty.text, BodyEmpty.json) : st \in {404, 502, 503}}

\* httpx.RequestError raised by the executor (connect error, timeout, ...)
TransportFailures ==
  {Exc("RequestError", m, NoStatus) : m \in {<<"connection refused">>, <<>>}}

Replied(r) == [kind |-> "response", response |-> r, exc |-> NoError]
Failed(e) == [kind |-> "transport", response |-> NoResponse, exc |-> e]

Outcomes == {Replied(r) : r \in Replies} \cup {Failed(e) : e \in TransportFailures}

\* the outcomes the executor produces where the operations are explored
\* over all their arguments
FewOutcomes ==
  {Replied(Response(200, BodyResults.text, BodyResults.json)),
   Replied(Response(200, BodyStatus.text, BodyStatus.json)),
   Replied(Response(204, BodyEmpty.text, BodyEmpty.json)),
   Replied(Response(400, BodyError.text, BodyError.json)),
   Replied(Response(503, BodyError.text, BodyError.json)),
   Failed(Exc("RequestError", <<"connection refused">>, NoStatus))}

\* ------------------------------------------------------- response parsing
\* variant: message is looked up before error
ExtractErrorMessageMessageFirst(response) ==
  LET data == response.json
      message == IF data.t = "dict"
                 THEN Or(Get(data, <<"message">>), Get(data, <<"error">>))
                 ELSE None
      text == Strip(response.text)
  IN IF data.t = "dict" /\ message.t = "str" /\ Strip(message.s) # <<>>
     THEN message.s
     ELSE IF text # <<>> THEN text
     ELSE <<"HTTP", " ">> \o FormatInt(response.status)

ExtractErrorMessage(response) ==
  LET data == response.json
      message == IF data.t = "dict"
                 THEN Or(Get(data, <<"error">>), Get(data, <<"message">>))
                 ELSE None
      text == Strip(response.text)
  IN IF data.t = "dict" /\ message.t = "str" /\ Strip(message.s) # <<>>
     THEN message.s
     ELSE IF text # <<>> THEN text
     ELSE <<"HTTP", " ">> \o FormatInt(response.status)

\* ------------------------------------------- validation and normalization
\* a float is fixed-point, n in thousandths (0.5 = 500); s names the
\* non-finite floats ("nan", "inf", "-inf")
Float(n) == Val("float", FALSE, n, <<>>, <<>>)
NonFinite(name) == Val("float", FALSE, 0, <<name>>, <<>>)
\* an instance of one of the str-based enums of types.py, s its value
Enum(cls, value) == Val(cls, FALSE, 0, value, <<>>)
Tuple(items) == Val("tuple", FALSE, 0, <<>>, items)
\* a value of a type the library knows nothing about (a set, an object)
Object == Val("object", FALSE, 0, <<>>, <<>>)
\* Document(id, vector, text, attributes)
Document(id, vector, text, attributes) ==
  Val("Document", FALSE, 0, <<>>,
      <<Entry(<<"id">>, id), Entry(<<"vector">>, vector),
        Entry(<<"text">>, text), Entry(<<"attributes">>, attributes)>>)

EnumClasses == {"DistanceMetric", "QueryMode", "FusionMode"}
\* isinstance(v, str): the enums of types.py subclass str
IsStr(v) == v.t = "str" \/ v.t \in EnumClasses
\* isinstance(v, int): bool is a subclass of int
IsInt(v) == v.t \in {"int", "bool"}
\* isinstance(v, (int, float))
IsNumber(v) == v.t \in {"int", "bool", "float"}
\* isinstance(v, (list, tuple))
IsListOrTuple(v) == v.t \in {"list", "tuple"}
IntValue(v) == IF v.t = "bool" THEN (IF v.b THEN 1 ELSE 0) ELSE v.n

Invalid(message) == Raise(ValidationError(<<message>>, NoStatus))

\* variant: the namespace is returned stripped
NormalizeNamespaceStripped(namespace, default) ==
  LET ns == IF namespace.t = "None" THEN default ELSE namespace
  IN IF ~IsStr(ns) \/ Strip(ns.s) = <<>>
     THEN Invalid("Namespace must be a non-empty string")
     ELSE Return(Str(Strip(ns.s)))

\* _normalize_namespace(namespace, default): the namespace to use, or the
\* ValidationError it raises
NormalizeNamespace(namespace, default) ==
  LET ns == IF namespace.t = "None" THEN default ELSE namespace
  IN IF ~IsStr(ns) \/ Strip(ns.s) = <<>>
     THEN Invalid("Namespace must be a non-empty string")
     ELSE Return(ns)

DistanceMetricValues == {<<"cosine_distance">>, <<"euclidean_squared">>, <<"dot_product">>}
QueryModeValues == {<<"vector">>, <<"text">>, <<"hybrid">>}
FusionModeValues == {<<"blend">>, <<"rrf">>}

NormalizeDistanceMetric(distance_metric) ==
  IF distance_metric.t = "None" THEN Return(None)
  ELSE IF distance_metric.t = "DistanceMetric" THEN Return(Str(distance_metric.s))
  ELSE IF IsStr(distance_metric)
  THEN IF distance_metric.s \in DistanceMetricValues
       THEN Return(Str(distance_metric.s))
       ELSE Invalid("Distance metric must be one of: cosine_distance, euclidean_squared, dot_product")
  ELSE Invalid("Distance metric must be a DistanceMetric or string")

\* variant: the text is returned as given
NormalizeQueryTextUnstripped(text) ==
  IF text.t = "None" THEN Return(None)
  ELSE IF ~IsStr(text) THEN Invalid("text must be a string")
  ELSE IF Strip(text.s) # <<>> THEN Return(text)
  ELSE Return(None)

NormalizeQueryText(text) ==
  IF text.t = "None" THEN Return(None)
  ELSE IF ~IsStr(text) THEN Invalid("text must be a string")
  ELSE IF Strip(text.s) # <<>> THEN Return(Str(Strip(text.s)))
  ELSE Return(None)

\* variant: text is looked at before the pair
NormalizeQueryModeTextFirst(mode, has_vector, has_text) ==
  IF mode.t = "None"
  THEN IF has_text THEN Return(Str(<<"text">>))
       ELSE IF has_vector /\ has_text THEN Return(Str(<<"hybrid">>))
       ELSE Return(Str(<<"vector">>))
  ELSE IF mode.t = "QueryMode" THEN Return(Str(mode.s))
  ELSE IF IsStr(mode)
  THEN IF mode.s \in QueryModeValues THEN Return(Str(mode.s))
       ELSE Invalid("mode must be one of: vector, text, hybrid")
  ELSE Invalid("mode must be a QueryMode or string")

NormalizeQueryMode(mode, has_vector, has_text) ==
  IF mode.t = "None"
  THEN IF has_vector /\ has_text THEN Return(Str(<<"hybrid">>))
       ELSE IF has_text THEN Return(Str(<<"text">>))
       ELSE Return(Str(<<"vector">>))
  ELSE IF mode.t = "QueryMode" THEN Return(Str(mode.s))
  ELSE IF IsStr(mode)
  THEN IF mode.s \in QueryModeValues THEN Return(Str(mode.s))
       ELSE Invalid("mode must be one of: vector, text, hybrid")
  ELSE Invalid("mode must be a QueryMode or string")

NormalizeFusionMode(fusion) ==
  IF fusion.t = "None" THEN Return(None)
  ELSE IF fusion.t = "FusionMode" THEN Return(Str(fusion.s))
  ELSE IF IsStr(fusion)
  THEN IF fusion.s \in FusionModeValues THEN Return(Str(fusion.s))
       ELSE Invalid("fusion must be one of: blend, rrf")
  ELSE Invalid("fusion must be a FusionMode or string")

\* float(alpha), in thousandths
FloatOf(v) == IF v.t = "float" THEN v.n ELSE IntValue(v) * 1000
Max(a, b) == IF a >= b THEN a ELSE b

\* variant: nothing is done about values below 0
NormalizeAlphaNoFloor(alpha) ==
  IF alpha.t = "None" THEN Return(None)
  ELSE IF ~IsNumber(alpha) \/ (alpha.t = "float" /\ alpha.s # <<>>)
  THEN Invalid("alpha must be a finite number")
  ELSE Return(Float(Min(1000, FloatOf(alpha))))

NormalizeAlpha(alpha) ==
  IF alpha.t = "None" THEN Return(None)
  ELSE IF ~IsNumber(alpha) \/ (alpha.t = "float" /\ alpha.s # <<>>)
  THEN Invalid("alpha must be a finite number")
  ELSE Return(Float(Max(0, Min(1000, FloatOf(alpha)))))

\* expected_dims: None or Num(d)
ValidateVector(vector, expected_dims) ==
  IF ~IsListOrTuple(vector) THEN Invalid("Vector must be a list of numbers")
  ELSE IF vector.items = <<>> THEN Invalid("Vector cannot be empty")
  ELSE IF \E i \in 1..Len(vector.items) : ~IsNumber(vector.items[i])
  THEN Invalid("Vector must contain only numbers")
  ELSE IF expected_dims.t # "None" /\ Len(vector.items) # expected_dims.n
  THEN Raise(ValidationError(
         <<"Expected", " ">> \o FormatInt(expected_dims.n)
         \o <<" ", "dimensions, got", " ">> \o FormatInt(Len(vector.items)), NoStatus))
  ELSE Return(List(vector.items))

RECURSIVE IsAttrValue(_)
IsAttrValue(value) ==
  IF value.t = "None" THEN TRUE
  ELSE IF value.t \in {"bool", "int", "float"} \/ IsStr(value) THEN TRUE
  ELSE IF value.t = "list"
  THEN \A i \in 1..Len(value.items) : IsAttrValue(value.items[i])
  ELSE IF value.t = "dict"
  THEN \A i \in 1..Len(value.items) : IsAttrValue(value.items[i].items[1])
  ELSE FALSE

ValidateAttributes(attributes) ==
  IF attributes.t = "None" THEN Return(None)
  ELSE IF attributes.t # "dict" THEN Invalid("Attributes must be a dictionary")
  ELSE IF \E i \in 1..Len(attributes.items) : ~IsAttrValue(attributes.items[i].items[1])
  THEN LET bad == {i \in 1..Len(attributes.items) :
                     ~IsAttrValue(attributes.items[i].items[1])}
           first == CHOOSE i \in bad : \A j \in bad : i <= j
       IN Raise(ValidationError(<<"Invalid attribute value for key '">>
                                \o attributes.items[first].s \o <<"'">>, NoStatus))
  ELSE Return(None)

ValidateFilters(filters) ==
  IF filters.t = "None" THEN Return(None)
  ELSE IF filters.t # "dict" THEN Invalid("Filters must be a dictionary")
  ELSE IF \E i \in 1..Len(filters.items) : ~IsAttrValue(filters.items[i].items[1])
  THEN LET bad == {i \in 1..Len(filters.items) :
                     ~IsAttrValue(filters.items[i].items[1])}
           first == CHOOSE i \in bad : \A j \in bad : i <= j
       IN Raise(ValidationError(<<"Invalid filter value for key '">>
                                \o filters.items[first].s \o <<"'">>, NoStatus))
  ELSE Return(None)

ValidateIds(ids) ==
  IF ~IsListOrTuple(ids) THEN Invalid("Ids must be a list of strings")
  ELSE IF ids.items = <<>> THEN Invalid("Ids list cannot be empty")
  ELSE IF \E i \in 1..Len(ids.items) :
            ~IsStr(ids.items[i]) \/ Strip(ids.items[i].s) = <<>>
  THEN Invalid("Each id must be a non-empty string")
  ELSE Return(List(ids.items))

\* variant: the dimensionality of the batch is never captured
RECURSIVE ValidateDocumentsFromNoDims(_, _, _, _)
ValidateDocumentsFromNoDims(docs, i, expected_dims, normalized) ==
  IF i > Len(docs) THEN Return(List(normalized))
  ELSE
    LET doc == docs[i]
        id == Get(doc, <<"id">>)
        text == Get(doc, <<"text">>)
        attributes == Get(doc, <<"attributes">>)
        vector == ValidateVector(Get(doc, <<"vector">>), expected_dims)
        attrs == ValidateAttributes(attributes)
    IN IF doc.t # "Document" THEN Invalid("Each vector must be a Document")
       ELSE IF ~IsStr(id) \/ Strip(id.s) = <<>>
       THEN Invalid("Document id must be a non-empty string")
       ELSE IF vector.kind = "raise" THEN vector
       ELSE IF text.t # "None" /\ ~IsStr(text)
       THEN Invalid("Document text must be a string")
       ELSE IF attrs.kind = "raise" THEN attrs
       ELSE ValidateDocumentsFromNoDims(
              docs, i + 1, expected_dims,
              Append(normalized, Document(id, vector.value, text, attributes)))

\* the body of the loop of _validate_documents from document i on, with the
\* dimensionality and the normalized documents accumulated so far
RECURSIVE ValidateDocumentsFrom(_, _, _, _)
ValidateDocumentsFrom(docs, i, expected_dims, normalized) ==
  IF i > Len(docs) THEN Return(List(normalized))
  ELSE
    LET doc == docs[i]
        id == Get(doc, <<"id">>)
        text == Get(doc, <<"text">>)
        attributes == Get(doc, <<"attributes">>)
        vector == ValidateVector(Get(doc, <<"vector">>), expected_dims)
        attrs == ValidateAttributes(attributes)
    IN IF doc.t # "Document" THEN Invalid("Each vector must be a Document")
       ELSE IF ~IsStr(id) \/ Strip(id.s) = <<>>
       THEN Invalid("Document id must be a non-empty string")
       ELSE IF vector.kind = "raise" THEN vector
       ELSE IF text.t # "None" /\ ~IsStr(text)
       THEN Invalid("Document text must be a string")
       ELSE IF attrs.kind = "raise" THEN attrs
       ELSE ValidateDocumentsFrom(
              docs, i + 1,
              IF expected_dims.t = "None" THEN Num(Len(vector.value.items))
              ELSE expected_dims,
              Append(normalized, Document(id, vector.value, text, attributes)))

\* variant: an empty batch is accepted
ValidateDocumentsAllowEmpty(vectors) ==
  IF ~IsListOrTuple(vectors) THEN Invalid("Vectors must be a list of Document objects")
  ELSE ValidateDocumentsFrom(vectors.items, 1, None, <<>>)

ValidateDocuments(vectors) ==
  IF ~IsListOrTuple(vectors) THEN Invalid("Vectors must be a list of Document objects")
  ELSE IF vectors.items = <<>> THEN Invalid("Vectors list cannot be empty")
  ELSE ValidateDocumentsFrom(vectors.items, 1, None, <<>>)

ValidatePositiveInt(value, name) ==
  IF value.t = "None" THEN Return(None)
  ELSE IF ~IsInt(value) \/ IntValue(value) <= 0
  THEN Raise(ValidationError(<<name, " ", "must be a positive integer">>, NoStatus))
  ELSE Return(value)

DocumentToPayload(doc) ==
  Dict(<<Entry(<<"id">>, Get(doc, <<"id">>)),
         Entry(<<"vector">>, List(Get(doc, <<"vector">>).items))>>
       \o (IF Get(doc, <<"text">>).t # "None"
           THEN <<Entry(<<"text">>, Get(doc, <<"text">>))>> ELSE <<>>)
       \o (IF Get(doc, <<"attributes">>).t # "None"
           THEN <<Entry(<<"attributes">>, Get(doc, <<"attributes">>))>> ELSE <<>>))

\* --------------------------------------------- response parsing (typed)
\* the builtin exceptions that int(), float(), str methods and
\* datetime.fromisoformat raise; they are not part of the taxonomy
Builtin(cls) == Raise(Exc(cls, <<>>, NoStatus))

Digits == {"0", "1", "2", "3", "4", "5", "6", "7", "8", "9"}
DigitValue(tok) == CHOOSE d \in 0..9 : DigitToken(d) = tok
IsDigits(s) == s # <<>> /\ \A i \in 1..Len(s) : s[i] \in Digits
RECURSIVE ParseDigits(_)
ParseDigits(s) ==
  IF Len(s) = 1 THEN DigitValue(s[1])
  ELSE ParseDigits(SubSeq(s, 1, Len(s) - 1)) * 10 + DigitValue(s[Len(s)])

\* truncation of a fixed-point float toward zero
Trunc(n) == IF n >= 0 THEN n \div 1000 ELSE -((-n) \div 1000)

\* int(v)
IntOf(v) ==
  CASE v.t \in {"int", "bool"} -> Return(Num(IntValue(v)))
    [] v.t = "float" ->
         IF v.s = <<>> THEN Return(Num(Trunc(v.n)))
         ELSE IF v.s = <<"nan">> THEN Builtin("ValueError")
         ELSE Builtin("OverflowError")
    [] IsStr(v) ->
         IF IsDigits(Strip(v.s)) THEN Return(Num(ParseDigits(Strip(v.s))))
         ELSE Builtin("ValueError")
    [] OTHER -> Builtin("TypeError")

\* float(v)
FloatOfValue(v) ==
  CASE v.t \in {"int", "bool"} -> Return(Float(IntValue(v) * 1000))
    [] v.t = "float" -> Return(v)
    [] IsStr(v) ->
         IF IsDigits(Strip(v.s)) THEN Return(Float(ParseDigits(Strip(v.s)) * 1000))
         ELSE Builtin("ValueError")
    [] OTHER -> Builtin("TypeError")

\* str(v), as used by f-strings and str(item)
StrOf(v) ==
  CASE IsStr(v) -> v.s
    [] v.t = "int" -> IF v.n >= 0 THEN FormatInt(v.n) ELSE <<"-">> \o FormatInt(-v.n)
    [] v.t = "bool" -> IF v.b THEN <<"True">> ELSE <<"False">>
    [] v.t = "None" -> <<"None">>
    [] OTHER -> <<"<", v.t, ">">>

\* the strings datetime.fromisoformat accepts
IsoDateTimes ==
  {<<"2025-01-01T00:00:00">>, <<"2025-01-01T00:00:00", "+00:00">>}

ParseDatetime(value) ==
  IF ~Truthy(value) THEN Return(None)
  ELSE IF ~IsStr(value) THEN Builtin("AttributeError")
  ELSE LET iso == IF value.s[Len(value.s)] = "Z"
                  THEN SubSeq(value.s, 1, Len(value.s) - 1) \o <<"+00:00">>
                  ELSE value.s
       IN IF iso \in IsoDateTimes THEN Return(Val("datetime", FALSE, 0, iso, <<>>))
          ELSE Builtin("ValueError")

\* variant: dist is looked up before score
RECURSIVE ParseVectorItemsFromDistFirst(_, _, _)
ParseVectorItemsFromDistFirst(items, i, results) ==
  IF i > Len(items) THEN Return(List(results))
  ELSE
    LET item == items[i]
        score_value == GetOr(item, <<"dist">>,
                         GetOr(item, <<"score">>,
                           GetOr(item, <<"distance">>, Float(0))))
        score == FloatOfValue(Or(score_value, Float(0)))
    IN IF item.t # "dict"
       THEN Raise(TidepoolError(<<"Invalid query response">>, NoStatus))
       ELSE IF score.kind = "raise" THEN score
       ELSE ParseVectorItemsFromDistFirst(items, i + 1,
              Append(results,
                Val("VectorResult", FALSE, 0, <<>>,
                    <<Entry(<<"id">>, Get(item, <<"id">>)),
                      Entry(<<"score">>, score.value),
                      Entry(<<"vector">>, Get(item, <<"vector">>)),
                      Entry(<<"attributes">>, Get(item, <<"attributes">>))>>)))

\* the loop of _parse_vector_results from item i on
RECURSIVE ParseVectorItemsFrom(_, _, _)
ParseVectorItemsFrom(items, i, results) ==
  IF i > Len(items) THEN Return(List(results))
  ELSE
    LET item == items[i]
        score_value == GetOr(item, <<"score">>,
                         GetOr(item, <<"dist">>,
                           GetOr(item, <<"distance">>, Float(0))))
        score == FloatOfValue(Or(score_value, Float(0)))
    IN IF item.t # "dict"
       THEN Raise(TidepoolError(<<"Invalid query response">>, NoStatus))
       ELSE IF score.kind = "raise" THEN score
       ELSE ParseVectorItemsFrom(items, i + 1,
              Append(results,
                Val("VectorResult", FALSE, 0, <<>>,
                    <<Entry(<<"id">>, Get(item, <<"id">>)),
                      Entry(<<"score">>, score.value),
                      Entry(<<"vector">>, Get(item, <<"vector">>)),
                      Entry(<<"attributes">>, Get(item, <<"attributes">>))>>)))

\* variant: the list under vectors is looked at before the one under results
ParseVectorResultsVectorsFirst(data) ==
  IF data.t = "list" THEN ParseVectorItemsFrom(data.items, 1, <<>>)
  ELSE IF data.t = "dict"
  THEN IF Get(data, <<"vectors">>).t = "list"
       THEN ParseVectorItemsFrom(Get(data, <<"vectors">>).items, 1, <<>>)
       ELSE IF Get(data, <<"results">>).t = "list"
       THEN ParseVectorItemsFrom(Get(data, <<"results">>).items, 1, <<>>)
       ELSE Raise(TidepoolError(<<"Invalid query response">>, NoStatus))
  ELSE Raise(TidepoolError(<<"Invalid query response">>, NoStatus))

ParseVectorResults(data) ==
  IF data.t = "list" THEN ParseVectorItemsFrom(data.items, 1, <<>>)
  ELSE IF data.t = "dict"
  THEN IF Get(data, <<"results">>).t = "list"
       THEN ParseVectorItemsFrom(Get(data, <<"results">>).items, 1, <<>>)
       ELSE IF Get(data, <<"vectors">>).t = "list"
       THEN ParseVectorItemsFrom(Get(data, <<"vectors">>).items, 1, <<>>)
       ELSE Raise(TidepoolError(<<"Invalid query response">>, NoStatus))
  ELSE Raise(TidepoolError(<<"Invalid query response">>, NoStatus))

ParseNamespaceInfo(data) ==
  LET p1 == Get(data, <<"pending_compaction">>)
      p2 == IF p1.t = "None" THEN Get(data, <<"pendingCompaction">>) ELSE p1
      pending == IF p2.t # "bool" THEN None ELSE p2
      approx_count == IntOf(GetOr(data, <<"approx_count">>, Num(0)))
      dimensions == IntOf(GetOr(data, <<"dimensions">>, Num(0)))
  IN IF approx_count.kind = "raise" THEN approx_count
     ELSE IF dimensions.kind = "raise" THEN dimensions
     ELSE Return(Val("NamespaceInfo", FALSE, 0, <<>>,
            <<Entry(<<"namespace">>, Get(data, <<"namespace">>)),
              Entry(<<"approx_count">>, approx_count.value),
              Entry(<<"dimensions">>, dimensions.value),
              Entry(<<"pending_compaction">>, pending)>>))

\* the loops of _parse_namespaces from item i on
RECURSIVE ParseNamespaceItemsFrom(_, _, _)
ParseNamespaceItemsFrom(items, i, infos) ==
  IF i > Len(items) THEN Return(List(infos))
  ELSE
    LET item == items[i]
        info == IF item.t = "dict" THEN ParseNamespaceInfo(item)
                ELSE ParseNamespaceInfo(
                       Dict(<<Entry(<<"namespace">>, Str(StrOf(item)))>>))
    IN IF info.kind = "raise" THEN info
       ELSE ParseNamespaceItemsFrom(items, i + 1, Append(infos, info.value))

ParseNamespaces(data) ==
  IF data.t = "list" THEN ParseNamespaceItemsFrom(data.items, 1, <<>>)
  ELSE IF data.t = "dict"
  THEN LET r1 == Get(data, <<"namespaces">>)
           raw == IF r1.t = "None" THEN Get(data, <<"namespace_list">>) ELSE r1
       IN IF raw.t = "list" THEN ParseNamespaceItemsFrom(raw.items, 1, <<>>)
          ELSE Raise(TidepoolError(<<"Invalid namespaces response">>, NoStatus))
  ELSE Raise(TidepoolError(<<"Invalid namespaces response">>, NoStatus))

\* the fields shared by IngestStatus and NamespaceStatus, in the order the
\* constructor call evaluates them
StatusFields(cls, data) ==
  LET last_run == ParseDatetime(Get(data, <<"last_run">>))
      wal_files == IntOf(GetOr(data, <<"wal_files">>, Num(0)))
      wal_entries == IntOf(GetOr(data, <<"wal_entries">>, Num(0)))
      segments == IntOf(GetOr(data, <<"segments">>, Num(0)))
      total_vecs == IntOf(GetOr(data, <<"total_vecs">>, Num(0)))
      dimensions == IntOf(GetOr(data, <<"dimensions">>, Num(0)))
  IN IF last_run.kind = "raise" THEN last_run
     ELSE IF wal_files.kind = "raise" THEN wal_files
     ELSE IF wal_entries.kind = "raise" THEN wal_entries
     ELSE IF segments.kind = "raise" THEN segments
     ELSE IF total_vecs.kind = "raise" THEN total_vecs
     ELSE IF dimensions.kind = "raise" THEN dimensions
     ELSE Return(Val(cls, FALSE, 0, <<>>,
            <<Entry(<<"last_run">>, last_run.value),
              Entry(<<"wal_files">>, wal_files.value),
              Entry(<<"wal_entries">>, wal_entries.value),
              Entry(<<"segments">>, segments.value),
              Entry(<<"total_vecs">>, total_vecs.value),
              Entry(<<"dimensions">>, dimensions.value)>>))

ParseIngestStatus(data) == StatusFields("IngestStatus", data)

ParseNamespaceStatus(data) == StatusFields("NamespaceStatus", data)

\* variant: ns is consulted whenever namespace is not a non-blank string
ParseQueryResponseFirstUsable(data, fallback_namespace) ==
  LET usable(v) == IsStr(v) /\ Strip(v.s) # <<>>
      raw_namespace == IF data.t # "dict" THEN None
                       ELSE IF usable(Get(data, <<"namespace">>))
                       THEN Get(data, <<"namespace">>)
                       ELSE Get(data, <<"ns">>)
      namespace == IF usable(raw_namespace)
                   THEN raw_namespace.s ELSE fallback_namespace
      results == ParseVectorResults(data)
  IN IF results.kind = "raise" THEN results
     ELSE Return(Val("QueryResponse", FALSE, 0, <<>>,
            <<Entry(<<"results">>, results.value),
              Entry(<<"namespace">>, Str(namespace))>>))

ParseQueryResponse(data, fallback_namespace) ==
  LET raw_namespace == IF data.t = "dict"
                       THEN Or(Get(data, <<"namespace">>), Get(data, <<"ns">>))
                       ELSE None
      namespace == IF data.t = "dict" /\ IsStr(raw_namespace)
                      /\ Strip(raw_namespace.s) # <<>>
                   THEN raw_namespace.s ELSE fallback_namespace
      results == ParseVectorResults(data)
  IN IF results.kind = "raise" THEN results
     ELSE Return(Val("QueryResponse", FALSE, 0, <<>>,
            <<Entry(<<"results">>, results.value),
              Entry(<<"namespace">>, Str(namespace))>>))

\* ------------------------------------------------------------ client state
Variants == {"sync", "async"}

\* TidepoolClient.__init__ / AsyncTidepoolClient.__init__ with a default
\* namespace that passes _normalize_namespace; the retry fields start at the
\* class attributes, and the two executor handles are created open
NewClient(variant, default_namespace) ==
  [variant |-> variant,
   max_retries |-> DEFAULT_MAX_RETRIES,
   base_delay |-> DEFAULT_BASE_DELAY,
   max_delay |-> DEFAULT_MAX_DELAY,
   default_namespace |-> NormalizeNamespace(default_namespace, Str(<<"default">>)).value,
   query_client |-> "open",
   ingest_client |-> "open"]

\* no client object constructed in this slot
NoClient ==
  [variant |-> "none", max_retries |-> 0, base_delay |-> 0, max_delay |-> 0,
   default_namespace |-> None, query_client |-> "none", ingest_client |-> "none"]

\* variant: close() releases the query handle only
CloseQueryOnly(self) == [self EXCEPT !.query_client = "closed"]

\* close(): both handles are released, the query one first
Close(self) ==
  [[self EXCEPT !.query_client = "closed"] EXCEPT !.ingest_client = "closed"]

Request(executor, method, path, json_body) ==
  [executor |-> executor, method |-> method, path |-> path, json_body |-> json_body]
NoRequest == Request("none", "", <<>>, None)

\* the arguments of a call, at the defaults of the signatures
DefaultArgs(op) ==
  [op |-> op, service |-> Str(<<"query">>), vectors |-> None, ids |-> None,
   namespace |-> None,
   distance_metric |-> Enum("DistanceMetric", <<"cosine_distance">>),
   vector |-> None, top_k |-> Num(10), include_vectors |-> Bool(FALSE),
   filters |-> None, ef_search |-> None, nprobe |-> None, text |-> None,
   mode |-> None, alpha |-> None, fusion |-> None, rrf_k |-> None]

NoArgs == DefaultArgs("none")

\* the frame of one logical call: the locals of the public operation,
\* of _request_json and of _with_retry
IdleCall ==
  [pc |-> "idle", args |-> NoArgs, namespace |-> <<>>, request |-> NoRequest,
   attempt |-> 0, iterations |-> 0, last_error |-> NoError, delay |-> 0,
   response |-> NoResponse, data |-> Pending, result |-> Pending]

\* -------------------------------------------- TidepoolClient (blocking)
\* variant: the exponent counts attempts from 1
SyncBackoffDelayFromOne(self, attempt) ==
  Min(self.base_delay * Pow2(attempt + 1), self.max_delay)

\* delay = min(self.base_delay * (2**attempt), self.max_delay)
SyncBackoffDelay(self, attempt) ==
  Min(self.base_delay * Pow2(attempt), self.max_delay)

\* variant: every 5xx reply is treated as transient
SyncSendRetries5xx(outcome) ==
  IF outcome.kind = "transport" THEN Raise(outcome.exc)
  ELSE IF outcome.response.status >= 500
  THEN Raise(ServiceUnavailableError(ExtractErrorMessage(outcome.response), 503))
  ELSE Return(None)

\* the closure send() of _request_json applied to what the executor did:
\* a response other than 503 is returned, a 503 raises
\* ServiceUnavailableError, a transport failure propagates
SyncSend(outcome) ==
  IF outcome.kind = "transport" THEN Raise(outcome.exc)
  ELSE IF outcome.response.status = 503
  THEN Raise(ServiceUnavailableError(ExtractErrorMessage(outcome.response), 503))
  ELSE Return(None)

SyncRaiseForError(response) ==
  LET message == ExtractErrorMessage(response)
      status == response.status
  IN CASE status = 400 -> ValidationError(message, status)
       [] status = 404 -> NotFoundError(message, status)
       [] status = 413 -> ValidationError(message, status)
       [] status = 503 -> ServiceUnavailableError(message, status)
       [] OTHER -> TidepoolError(message, status)

\* _request_json after _with_retry has returned a response
SyncRequestJsonTail(response) ==
  IF response.status >= 400 THEN Raise(SyncRaiseForError(response))
  ELSE IF response.status = 204 \/ response.text = <<>> THEN Return(None)
  ELSE IF response.json.t = "invalid"
  THEN Raise(TidepoolError(<<"Invalid JSON response">>, response.status))
  ELSE Return(response.json)

\* the code after the loop of _with_retry
SyncRetryRaise(last_error) ==
  IF IsTidepoolError(last_error) THEN Raise(last_error)
  ELSE Raise(TidepoolError(StrOfError(last_error), NoStatus))

\* entry of _with_retry: last_error = None, and the range of the loop is
\* evaluated once
SyncRetryEnter(self, c) ==
  LET c1 == [c EXCEPT !.last_error = NoError, !.attempt = 0,
                      !.iterations = self.max_retries + 1]
  IN IF c1.iterations <= 0
     THEN [c1 EXCEPT !.pc = "done", !.data = SyncRetryRaise(NoError)]
     ELSE [c1 EXCEPT !.pc = "attempt"]

\* variant: a transport failure is not retried
SyncRetryIterationNoTransportRetry(self, c, outcome) ==
  LET sent == SyncSend(outcome)
  IN IF sent.kind = "return"
     THEN [c EXCEPT !.pc = "done", !.response = outcome.response,
                    !.data = SyncRequestJsonTail(outcome.response)]
     ELSE IF c.attempt = self.max_retries \/ outcome.kind = "transport"
     THEN [c EXCEPT !.pc = "done", !.last_error = sent.exc,
                    !.data = SyncRetryRaise(sent.exc)]
     ELSE [c EXCEPT !.pc = "sleeping", !.last_error = sent.exc,
                    !.delay = SyncBackoffDelay(self, c.attempt)]

\* variant: the loop is left one attempt early
SyncRetryIterationEarlyBreak(self, c, outcome) ==
  LET sent == SyncSend(outcome)
  IN IF sent.kind = "return"
     THEN [c EXCEPT !.pc = "done", !.response = outcome.response,
                    !.data = SyncRequestJsonTail(outcome.response)]
     ELSE IF c.attempt + 1 = self.max_retries
     THEN [c EXCEPT !.pc = "done", !.last_error = sent.exc,
                    !.data = SyncRetryRaise(sent.exc)]
     ELSE [c EXCEPT !.pc = "sleeping", !.last_error = sent.exc,
                    !.delay = SyncBackoffDelay(self, c.attempt)]

\* one iteration of the loop of _with_retry, from the return of the
\* executor to the next suspension or to the end of _request_json
SyncRetryIteration(self, c, outcome) ==
  LET sent == SyncSend(outcome)
  IN IF sent.kind = "return"
     THEN [c EXCEPT !.pc = "done", !.response = outcome.response,
                    !.data = SyncRequestJsonTail(outcome.response)]
     ELSE IF c.attempt = self.max_retries
     THEN [c EXCEPT !.pc = "done", !.last_error = sent.exc,
                    !.data = SyncRetryRaise(sent.exc)]
     ELSE [c EXCEPT !.pc = "sleeping", !.last_error = sent.exc,
                    !.delay = SyncBackoffDelay(self, c.attempt)]

\* variant: the next attempt goes to the executor of the other service
SyncRetryResumeOtherExecutor(self, c) ==
  IF c.attempt + 1 < c.iterations
  THEN [c EXCEPT !.pc = "attempt", !.attempt = c.attempt + 1,
                 !.request.executor = IF @ = "query" THEN "ingest" ELSE "query"]
  ELSE [c EXCEPT !.pc = "done", !.attempt = c.attempt + 1,
                 !.data = SyncRetryRaise(c.last_error)]

\* variant: the loop does not move on after the suspension
SyncRetryResumeStuck(self, c) == [c EXCEPT !.pc = "sleeping"]

\* time.sleep(delay) returns: the loop takes its next value, or ends
SyncRetryResume(self, c) ==
  IF c.attempt + 1 < c.iterations
  THEN [c EXCEPT !.pc = "attempt", !.attempt = c.attempt + 1]
  ELSE [c EXCEPT !.pc = "done", !.attempt = c.attempt + 1,
                 !.data = SyncRetryRaise(c.last_error)]

\* ------------------------------------- AsyncTidepoolClient (cooperative)
\* variant: the delay is not capped
AsyncBackoffDelayUncapped(self, attempt) ==
  self.base_delay * Pow2(attempt)

AsyncBackoffDelay(self, attempt) ==
  Min(self.base_delay * Pow2(attempt), self.max_delay)

AsyncSend(outcome) ==
  IF outcome.kind = "transport" THEN Raise(outcome.exc)
  ELSE IF outcome.response.status = 503
  THEN Raise(ServiceUnavailableError(ExtractErrorMessage(outcome.response), 503))
  ELSE Return(None)

\* variant: 413 is not mapped
AsyncRaiseForErrorNo413(response) ==
  LET message == ExtractErrorMessage(response)
      status == response.status
  IN CASE status = 400 -> ValidationError(message, status)
       [] status = 404 -> NotFoundError(message, status)
       [] status = 503 -> ServiceUnavailableError(message, status)
       [] OTHER -> TidepoolError(message, status)

AsyncRaiseForError(response) ==
  LET message == ExtractErrorMessage(response)
      status == response.status
  IN CASE status = 400 -> ValidationError(message, status)
       [] status = 404 -> NotFoundError(message, status)
       [] status = 413 -> ValidationError(message, status)
       [] status = 503 -> ServiceUnavailableError(message, status)
       [] OTHER -> TidepoolError(message, status)

\* variant: 204 is not special-cased
AsyncRequestJsonTailNo204(response) ==
  IF response.status >= 400 THEN Raise(AsyncRaiseForError(response))
  ELSE IF response.text = <<>> THEN Return(None)
  ELSE IF response.json.t = "invalid"
  THEN Raise(TidepoolError(<<"Invalid JSON response">>, response.status))
  ELSE Return(response.json)

AsyncRequestJsonTail(response) ==
  IF response.status >= 400 THEN Raise(AsyncRaiseForError(response))
  ELSE IF response.status = 204 \/ response.text = <<>> THEN Return(None)
  ELSE IF response.json.t = "invalid"
  THEN Raise(TidepoolError(<<"Invalid JSON response">>, response.status))
  ELSE Return(response.json)

\* variant: the last error is always wrapped
AsyncRetryRaiseWrapped(last_error) ==
  Raise(TidepoolError(StrOfError(last_error), NoStatus))

AsyncRetryRaise(last_error) ==
  IF IsTidepoolError(last_error) THEN Raise(last_error)
  ELSE Raise(TidepoolError(StrOfError(last_error), NoStatus))

AsyncRetryEnter(self, c) ==
  LET c1 == [c EXCEPT !.last_error = NoError, !.attempt = 0,
                      !.iterations = self.max_retries + 1]
  IN IF c1.iterations <= 0
     THEN [c1 EXCEPT !.pc = "done", !.data = AsyncRetryRaise(NoError)]
     ELSE [c1 EXCEPT !.pc = "attempt"]

\* variant: the first error of the call is kept
AsyncRetryIterationFirstError(self, c, outcome) ==
  LET sent == AsyncSend(outcome)
      kept == IF c.last_error = NoError THEN sent.exc ELSE c.last_error
  IN IF sent.kind = "return"
     THEN [c EXCEPT !.pc = "done", !.response = outcome.response,
                    !.data = AsyncRequestJsonTail(outcome.response)]
     ELSE IF c.attempt = self.max_retries
     THEN [c EXCEPT !.pc = "done", !.last_error = kept,
                    !.data = AsyncRetryRaise(kept)]
     ELSE [c EXCEPT !.pc = "sleeping", !.last_error = kept,
                    !.delay = AsyncBackoffDelay(self, c.attempt)]

AsyncRetryIteration(self, c, outcome) ==
  LET sent == AsyncSend(outcome)
  IN IF sent.kind = "return"
     THEN [c EXCEPT !.pc = "done", !.response = outcome.response,
                    !.data = AsyncRequestJsonTail(outcome.response)]
     ELSE IF c.attempt = self.max_retries
     THEN [c EXCEPT !.pc = "done", !.last_error = sent.exc,
                    !.data = AsyncRetryRaise(sent.exc)]
     ELSE [c EXCEPT !.pc = "sleeping", !.last_error = sent.exc,
                    !.delay = AsyncBackoffDelay(self, c.attempt)]

\* await asyncio.sleep(delay) returns
AsyncRetryResume(self, c) ==
  IF c.attempt + 1 < c.iterations
  THEN [c EXCEPT !.pc = "attempt", !.attempt = c.attempt + 1]
  ELSE [c EXCEPT !.pc = "done", !.attempt = c.attempt + 1,
                 !.data = AsyncRetryRaise(c.last_error)]

\* ------------------------------------------------------ public operations
\* what a public operation has done when it reaches _request_json: the
\* error it raised before that, or the request it built and the namespace
\* it resolved
Plan(error, request, namespace) ==
  [error |-> error, request |-> request, namespace |-> namespace]
Rejected(error) == Plan(error, NoRequest, <<>>)

\* _select_client(service): the executor, or "none" when it raises
SelectClient(service) ==
  IF IsStr(service) /\ service.s = <<"query">> THEN "query"
  ELSE IF IsStr(service) /\ service.s = <<"ingest">> THEN "ingest"
  ELSE "none"

\* variant: the explicit namespace is ignored
ResolveNamespaceDefaultOnly(self, namespace) ==
  NormalizeNamespace(None, self.default_namespace)

ResolveNamespace(self, namespace) ==
  NormalizeNamespace(namespace, self.default_namespace)

Health(self, a) ==
  IF SelectClient(a.service) = "none"
  THEN Rejected(Invalid("Service must be 'query' or 'ingest'"))
  ELSE Plan(Pending, Request(SelectClient(a.service), "GET", <<"/health">>, None), <<>>)

\* variant: a status that is missing or falsy counts as unhealthy
HealthResultStrict(data) ==
  IF data.t = "dict"
  THEN LET status == Get(data, <<"status">>)
       IN IF ~(IsStr(status) /\ status.s = <<"healthy">>)
          THEN Raise(TidepoolError(<<"Service unhealthy:", " ">> \o StrOf(status), NoStatus))
          ELSE Return(data)
  ELSE Raise(TidepoolError(<<"Invalid health response">>, NoStatus))

HealthResult(data) ==
  IF data.t = "dict"
  THEN LET status == Get(data, <<"status">>)
       IN IF Truthy(status) /\ ~(IsStr(status) /\ status.s = <<"healthy">>)
          THEN Raise(TidepoolError(<<"Service unhealthy:", " ">> \o StrOf(status), NoStatus))
          ELSE Return(data)
  ELSE Raise(TidepoolError(<<"Invalid health response">>, NoStatus))

RECURSIVE DocumentsToPayload(_)
DocumentsToPayload(docs) ==
  IF docs = <<>> THEN <<>>
  ELSE <<DocumentToPayload(Head(docs))>> \o DocumentsToPayload(Tail(docs))

Upsert(self, a) ==
  LET normalized == ValidateDocuments(a.vectors)
      metric == NormalizeDistanceMetric(a.distance_metric)
      namespace == ResolveNamespace(self, a.namespace)
      payload == Dict(
        <<Entry(<<"vectors">>, List(DocumentsToPayload(normalized.value.items)))>>
        \o (IF metric.value.t # "None"
            THEN <<Entry(<<"distance_metric">>, metric.value)>> ELSE <<>>))
  IN IF normalized.kind = "raise" THEN Rejected(normalized)
     ELSE IF metric.kind = "raise" THEN Rejected(metric)
     ELSE IF namespace.kind = "raise" THEN Rejected(namespace)
     ELSE Plan(Pending,
               Request("ingest", "POST", <<"/v1/vectors/">> \o namespace.value.s, payload),
               namespace.value.s)

\* an optional key of a payload
Optional(key, value) == IF value.t # "None" THEN <<Entry(<<key>>, value)>> ELSE <<>>

Query(self, a) ==
  LET ef_search == ValidatePositiveInt(a.ef_search, "ef_search")
      nprobe == ValidatePositiveInt(a.nprobe, "nprobe")
      rrf_k == ValidatePositiveInt(a.rrf_k, "rrf_k")
      metric == NormalizeDistanceMetric(a.distance_metric)
      normalized_text == NormalizeQueryText(a.text)
      has_text == normalized_text.value.t # "None"
      has_vector == a.vector.t # "None"
      normalized_vector == IF a.vector.t # "None" THEN ValidateVector(a.vector, None)
                           ELSE Return(None)
      mode_value == NormalizeQueryMode(a.mode, has_vector, has_text)
      fusion_value == NormalizeFusionMode(a.fusion)
      alpha_value == NormalizeAlpha(a.alpha)
      namespace == ResolveNamespace(self, a.namespace)
      payload == Dict(
        <<Entry(<<"top_k">>, a.top_k),
          Entry(<<"include_vectors">>, Bool(Truthy(a.include_vectors))),
          Entry(<<"mode">>, mode_value.value)>>
        \o Optional("vector", normalized_vector.value)
        \o Optional("text", normalized_text.value)
        \o Optional("distance_metric", metric.value)
        \o Optional("filters", a.filters)
        \o Optional("ef_search", ef_search.value)
        \o Optional("nprobe", nprobe.value)
        \o Optional("alpha", alpha_value.value)
        \o Optional("fusion", fusion_value.value)
        \o Optional("rrf_k", rrf_k.value))
  IN IF ~IsInt(a.top_k) \/ IntValue(a.top_k) <= 0
     THEN Rejected(Invalid("top_k must be a positive integer"))
     ELSE IF ValidateFilters(a.filters).kind = "raise"
     THEN Rejected(ValidateFilters(a.filters))
     ELSE IF ef_search.kind = "raise" THEN Rejected(ef_search)
     ELSE IF nprobe.kind = "raise" THEN Rejected(nprobe)
     ELSE IF rrf_k.kind = "raise" THEN Rejected(rrf_k)
     ELSE IF metric.kind = "raise" THEN Rejected(metric)
     ELSE IF normalized_text.kind = "raise" THEN Rejected(normalized_text)
     ELSE IF normalized_vector.kind = "raise" THEN Rejected(normalized_vector)
     ELSE IF mode_value.kind = "raise" THEN Rejected(mode_value)
     ELSE IF mode_value.value.s = <<"vector">> /\ ~has_vector
     THEN Rejected(Invalid("vector is required"))
     ELSE IF mode_value.value.s = <<"text">> /\ ~has_text
     THEN Rejected(Invalid("text is required"))
     ELSE IF mode_value.value.s = <<"hybrid">> /\ (~has_vector \/ ~has_text)
     THEN Rejected(Invalid("vector and text are required for hybrid"))
     ELSE IF fusion_value.kind = "raise" THEN Rejected(fusion_value)
     ELSE IF alpha_value.kind = "raise" THEN Rejected(alpha_value)
     ELSE IF namespace.kind = "raise" THEN Rejected(namespace)
     ELSE Plan(Pending,
               Request("query", "POST", <<"/v1/vectors/">> \o namespace.value.s, payload),
               namespace.value.s)

Delete(self, a) ==
  LET normalized == ValidateIds(a.ids)
      namespace == ResolveNamespace(self, a.namespace)
  IN IF normalized.kind = "raise" THEN Rejected(normalized)
     ELSE IF namespace.kind = "raise" THEN Rejected(namespace)
     ELSE Plan(Pending,
               Request("ingest", "DELETE", <<"/v1/vectors/">> \o namespace.value.s,
                       Dict(<<Entry(<<"ids">>, normalized.value)>>)),
               namespace.value.s)

GetNamespace(self, a) ==
  LET namespace == ResolveNamespace(self, a.namespace)
  IN IF namespace.kind = "raise" THEN Rejected(namespace)
     ELSE Plan(Pending,
               Request("query", "GET", <<"/v1/namespaces/">> \o namespace.value.s, None),
               namespace.value.s)

GetNamespaceResult(data) ==
  IF data.t # "dict" THEN Raise(TidepoolError(<<"Invalid namespace response">>, NoStatus))
  ELSE ParseNamespaceInfo(data)

GetNamespaceStatus(self, a) ==
  LET namespace == ResolveNamespace(self, a.namespace)
  IN IF namespace.kind = "raise" THEN Rejected(namespace)
     ELSE Plan(Pending,
               Request("ingest", "GET",
                       <<"/v1/namespaces/">> \o namespace.value.s \o <<"/status">>, None),
               namespace.value.s)

GetNamespaceStatusResult(data) ==
  IF data.t # "dict"
  THEN Raise(TidepoolError(<<"Invalid namespace status response">>, NoStatus))
  ELSE ParseNamespaceStatus(data)

ListNamespaces(self, a) ==
  Plan(Pending, Request("query", "GET", <<"/v1/namespaces">>, None), <<>>)

Status(self, a) ==
  Plan(Pending, Request("ingest", "GET", <<"/status">>, None), <<>>)

StatusResult(data) ==
  IF data.t # "dict" THEN Raise(TidepoolError(<<"Invalid status response">>, NoStatus))
  ELSE ParseIngestStatus(data)

Compact(self, a) ==
  LET namespace == ResolveNamespace(self, a.namespace)
  IN IF namespace.kind = "raise" THEN Rejected(namespace)
     ELSE Plan(Pending,
               Request("ingest", "POST",
                       <<"/v1/namespaces/">> \o namespace.value.s \o <<"/compact">>, None),
               namespace.value.s)

\* client._request_json(client._query_client, "GET", "/health"), called
\* directly
RequestJson(self, a) ==
  Plan(Pending, Request("query", "GET", <<"/health">>, None), <<>>)

PublicOps ==
  {"health", "upsert", "query", "delete", "get_namespace", "get_namespace_status",
   "list_namespaces", "status", "compact"}

\* the part of operation a.op that runs before _request_json
Prepare(self, a) ==
  CASE a.op = "health" -> Health(self, a)
    [] a.op = "upsert" -> Upsert(self, a)
    [] a.op = "query" -> Query(self, a)
    [] a.op = "delete" -> Delete(self, a)
    [] a.op = "get_namespace" -> GetNamespace(self, a)
    [] a.op = "get_namespace_status" -> GetNamespaceStatus(self, a)
    [] a.op = "list_namespaces" -> ListNamespaces(self, a)
    [] a.op = "status" -> Status(self, a)
    [] a.op = "compact" -> Compact(self, a)
    [] a.op = "_request_json" -> RequestJson(self, a)

\* the part of operation op that runs after _request_json: an error raised
\* by _request_json propagates, a returned value is parsed
Finish(op, data, namespace) ==
  IF data.kind = "raise" THEN data
  ELSE CASE op = "health" -> HealthResult(data.value)
         [] op \in {"upsert", "delete", "compact"} -> Return(None)
         [] op = "query" -> ParseQueryResponse(data.value, namespace)
         [] op = "get_namespace" -> GetNamespaceResult(data.value)
         [] op = "get_namespace_status" -> GetNamespaceStatusResult(data.value)
         [] op = "list_namespaces" -> ParseNamespaces(data.value)
         [] op = "status" -> StatusResult(data.value)
         [] op = "_request_json" -> data

\* ------------------------------------------------- the calls of the model
Vec3 == List(<<Float(100), Float(200), Float(300)>>)
Vec2 == List(<<Float(100), Float(200)>>)
Doc1 == Document(Str(<<"doc-1">>), Vec3, None, None)
Doc2 == Document(Str(<<"doc-2">>), Vec3, Str(<<"hello">>),
                 Dict(<<Entry(<<"tag">>, Str(<<"a">>))>>))

NamespaceArgs == {None, Str(<<"products">>), Str(<<" ">>), Str(<<>>), Num(7)}

DocumentsArgs ==
  {List(<<Doc1>>), List(<<Doc1, Doc2>>), List(<<>>), Object,
   List(<<Document(Str(<<"doc-1">>), List(<<>>), None, None)>>),
   List(<<Doc1, Document(Str(<<"doc-2">>), Vec2, None, None)>>),
   List(<<Document(Str(<<" ">>), Vec3, None, None)>>),
   List(<<Document(Str(<<"doc-1">>), Vec3, Num(1), None)>>),
   List(<<Document(Str(<<"doc-1">>), Vec3, None,
                   Dict(<<Entry(<<"tag">>, Object)>>))>>),
   List(<<Dict(<<>>)>>)}

IdsArgs ==
  {List(<<Str(<<"a">>), Str(<<"b">>)>>), List(<<>>), Object,
   List(<<Str(<<"a">>), Str(<<" ">>)>>), List(<<Num(1)>>)}

UpsertCalls ==
  {[DefaultArgs("upsert") EXCEPT !.vectors = v, !.namespace = ns, !.distance_metric = m] :
     v \in DocumentsArgs, ns \in NamespaceArgs,
     m \in {Enum("DistanceMetric", <<"euclidean_squared">>), None,
            Str(<<"manhattan">>), Num(1)}}

QueryCalls ==
  {[DefaultArgs("query") EXCEPT !.vector = v, !.text = t, !.mode = m, !.top_k = k,
                                !.alpha = al, !.namespace = ns] :
     v \in {None, Vec3, List(<<>>), List(<<Str(<<"x">>)>>)},
     t \in {None, Str(<<" ", "hello", " ">>), Str(<<" ">>), Num(1)},
     m \in {None, Str(<<"text">>), Enum("QueryMode", <<"hybrid">>), Str(<<"nearest">>),
            Num(1)},
     k \in {Num(5), Num(0), Str(<<"5">>)},
     al \in {None, Float(2000), NonFinite("nan")},
     ns \in {None, Str(<<" ">>)}}
  \cup
  {[DefaultArgs("query") EXCEPT !.vector = Vec3, !.filters = f, !.ef_search = e,
                                !.nprobe = e, !.rrf_k = r, !.fusion = fu,
                                !.distance_metric = None] :
     f \in {None, Dict(<<Entry(<<"tag">>, Object)>>), List(<<>>)},
     e \in {None, Num(0)},
     r \in {Num(10), Num(-1), Float(1000)},
     fu \in {Str(<<"rrf">>), Str(<<"sum">>), Num(1)}}

DeleteCalls ==
  {[DefaultArgs("delete") EXCEPT !.ids = i, !.namespace = ns] :
     i \in IdsArgs, ns \in NamespaceArgs}

NamespaceCalls ==
  {[DefaultArgs(op) EXCEPT !.namespace = ns] :
     op \in {"get_namespace", "get_namespace_status", "compact"}, ns \in NamespaceArgs}

HealthCalls ==
  {[DefaultArgs("health") EXCEPT !.service = sv] :
     sv \in {Str(<<"query">>), Str(<<"ingest">>), Str(<<"admin">>), None}}

PlainCalls == {DefaultArgs(op) : op \in {"list_namespaces", "status", "_request_json"}}

Calls ==
  UpsertCalls \cup QueryCalls \cup DeleteCalls \cup NamespaceCalls \cup HealthCalls
  \cup PlainCalls

\* the calls made where the retry loop is explored over all outcomes
RetryCalls ==
  {DefaultArgs("_request_json"), DefaultArgs("status"),
   [DefaultArgs("query") EXCEPT !.vector = Vec3],
   [DefaultArgs("get_namespace") EXCEPT !.namespace = Str(<<"missing">>)],
   [DefaultArgs("upsert") EXCEPT !.vectors = List(<<Doc1>>)],
   [DefaultArgs("health") EXCEPT !.service = Str(<<"ingest">>)],
   [DefaultArgs("upsert") EXCEPT !.vectors = List(<<>>)],
   [DefaultArgs("delete") EXCEPT !.ids = List(<<>>)]}

\* the values assigned to the mutable retry fields of a client
RetryValues == 0..MaxRetriesBound
BaseDelayValues == {500, 3000}
MaxDelayValues == {1000, 10000}
\* the default namespaces clients are constructed with
DefaultNamespaces == {Str(<<"default">>), Str(<<"docs">>)}

\* ------------------------------------------------------------------- state
Slots == {1, 2}

VARIABLES
  client,    \* client[s]: the client object of slot s, or NoClient
  call,      \* call[s]: the frame of the logical call in flight on client[s]
  sent,      \* sent[s]: the requests handed to the executor by that call
  slept,     \* slept[s]: the delays that call has asked to be suspended for
  statuses,  \* statuses[s]: the status of each attempt's reply, NoStatus
             \* for a transport failure
  last       \* last[s]: what the executor did on the latest attempt

vars == <<client, call, sent, slept, statuses, last>>

NoOutcome == [kind |-> "none", response |-> NoResponse, exc |-> NoError]

OutcomeStatus(o) == IF o.kind = "transport" THEN NoStatus ELSE o.response.status

\* the frame with the result of the public operation filled in once
\* _request_json has finished
Complete(c) ==
  IF c.pc = "done" THEN [c EXCEPT !.result = Finish(c.args.op, c.data, c.namespace)]
  ELSE c

\* a public operation is called: it validates, builds its request and
\* enters _with_retry
Begin(self, a) ==
  LET plan == Prepare(self, a)
      c == [IdleCall EXCEPT !.args = a, !.request = plan.request,
                            !.namespace = plan.namespace]
  IN IF plan.error.kind = "raise"
     THEN [IdleCall EXCEPT !.pc = "done", !.args = a, !.result = plan.error]
     ELSE Complete(IF self.variant = "sync" THEN SyncRetryEnter(self, c)
                   ELSE AsyncRetryEnter(self, c))

\* the executor answers the pending attempt
Answer(self, c, outcome) ==
  Complete(IF self.variant = "sync" THEN SyncRetryIteration(self, c, outcome)
           ELSE AsyncRetryIteration(self, c, outcome))

\* the suspension ends
Resume(self, c) ==
  Complete(IF self.variant = "sync" THEN SyncRetryResume(self, c)
           ELSE AsyncRetryResume(self, c))

\* ----------------------------------------------------------------- actions
Empty == [s \in Slots |-> <<>>]

\* one client of either class has been constructed
Constructions(namespaces) ==
  {[s \in Slots |-> IF s = 1 THEN NewClient(v, ns) ELSE NoClient] :
     v \in Variants, ns \in namespaces}

Init ==
  /\ client \in Constructions({Str(<<"default">>)})
  /\ call = [s \in Slots |-> IdleCall]
  /\ sent = Empty
  /\ slept = Empty
  /\ statuses = Empty
  /\ last = [s \in Slots |-> NoOutcome]

Constructed(s) == client[s].variant # "none"

\* client.max_retries = v, between calls
SetMaxRetries(s, v) ==
  /\ Constructed(s) /\ call[s].pc = "idle"
  /\ client' = [client EXCEPT ![s].max_retries = v]
  /\ UNCHANGED <<call, sent, slept, statuses, last>>

\* client.base_delay = v, between calls
SetBaseDelay(s, v) ==
  /\ Constructed(s) /\ call[s].pc = "idle"
  /\ client' = [client EXCEPT ![s].base_delay = v]
  /\ UNCHANGED <<call, sent, slept, statuses, last>>

\* client.max_delay = v, between calls
SetMaxDelay(s, v) ==
  /\ Constructed(s) /\ call[s].pc = "idle"
  /\ client' = [client EXCEPT ![s].max_delay = v]
  /\ UNCHANGED <<call, sent, slept, statuses, last>>

Call(s, a) ==
  /\ Constructed(s) /\ call[s].pc = "idle"
  /\ call' = [call EXCEPT ![s] = Begin(client[s], a)]
  /\ UNCHANGED <<client, sent, slept, statuses, last>>

Attempt(s, o) ==
  /\ call[s].pc = "attempt"
  /\ call' = [call EXCEPT ![s] = Answer(client[s], call[s], o)]
  /\ sent' = [sent EXCEPT ![s] = Append(@, call[s].request)]
  /\ statuses' = [statuses EXCEPT ![s] = Append(@, OutcomeStatus(o))]
  /\ last' = [last EXCEPT ![s] = o]
  /\ slept' = [slept EXCEPT ![s] =
                 IF call'[s].pc = "sleeping" THEN Append(@, call'[s].delay) ELSE @]
  /\ UNCHANGED client

Wake(s) ==
  /\ call[s].pc = "sleeping"
  /\ call' = [call EXCEPT ![s] = Resume(client[s], call[s])]
  /\ UNCHANGED <<client, sent, slept, statuses, last>>

\* the caller takes the result or the error of the finished call
Finished(s) ==
  /\ call[s].pc = "done"
  /\ call' = [call EXCEPT ![s] = IdleCall]
  /\ sent' = [sent EXCEPT ![s] = <<>>]
  /\ slept' = [slept EXCEPT ![s] = <<>>]
  /\ statuses' = [statuses EXCEPT ![s] = <<>>]
  /\ last' = [last EXCEPT ![s] = NoOutcome]
  /\ UNCHANGED client

Next ==
  \E s \in Slots :
    \/ \E v \in RetryValues : SetMaxRetries(s, v)
    \/ \E v \in BaseDelayValues : SetBaseDelay(s, v)
    \/ \E v \in MaxDelayValues : SetMaxDelay(s, v)
    \/ \E a \in RetryCalls : Call(s, a)
    \/ \E o \in Outcomes : Attempt(s, o)
    \/ Wake(s)
    \/ Finished(s)

Spec == Init /\ [][Next]_vars

\* the retry loop with an executor that answers every attempt and a
\* scheduler that ends every suspension (time.sleep and asyncio.sleep
\* return)
LiveSpec ==
  /\ Init /\ [][Next]_vars
  /\ \A s \in Slots :
       /\ WF_vars(\E o \in Outcomes : Attempt(s, o))
       /\ WF_vars(Wake(s))

\* the operations over all their arguments, on clients left at the retry
\* settings of their class
OpsInit ==
  /\ client \in Constructions(DefaultNamespaces)
  /\ call = [s \in Slots |-> IdleCall]
  /\ sent = Empty
  /\ slept = Empty
  /\ statuses = Empty
  /\ last = [s \in Slots |-> NoOutcome]

OpsNext ==
  \E s \in Slots :
    \/ \E a \in Calls : Call(s, a)
    \/ \E o \in FewOutcomes : Attempt(s, o)
    \/ Wake(s)
    \/ Finished(s)

OpsSpec == OpsInit /\ [][OpsNext]_vars

\* several logical calls in flight on one AsyncTidepoolClient, each a
\* coroutine of the same event loop: call[t] is the frame of task t and
\* client[1] the client they all use
TaskClient == client[1]

TaskInit ==
  /\ client = [s \in Slots |-> IF s = 1 THEN NewClient("async", Str(<<"default">>))
                               ELSE NoClient]
  /\ call = [s \in Slots |-> IdleCall]
  /\ sent = Empty
  /\ slept = Empty
  /\ statuses = Empty
  /\ last = [s \in Slots |-> NoOutcome]

TaskCalls ==
  {[DefaultArgs("query") EXCEPT !.vector = Vec3],
   [DefaultArgs("get_namespace") EXCEPT !.namespace = Str(<<"missing">>)]}

TaskOutcomes ==
  {Replied(Response(200, BodyResults.text, BodyResults.json)),
   Replied(Response(404, BodyError.text, BodyError.json)),
   Replied(Response(503, BodyError.text, BodyError.json)),
   Failed(Exc("RequestError", <<"connection refused">>, NoStatus))}

\* variant: the suspension is a blocking sleep
AsyncLoopHoldersBlocking(calls) == {t \in Slots : calls[t].pc = "sleeping"}

\* the tasks whose suspension keeps the event loop from running another
\* task: await asyncio.sleep(delay) hands the loop back, so there are none
AsyncLoopHolders(calls) == {}

TaskSetMaxRetries(v) ==
  /\ \A t \in Slots : call[t].pc = "idle"
  /\ client' = [client EXCEPT ![1].max_retries = v]
  /\ UNCHANGED <<call, sent, slept, statuses, last>>

TaskCall(t, a) ==
  /\ call[t].pc = "idle" /\ AsyncLoopHolders(call) \subseteq {t}
  /\ call' = [call EXCEPT ![t] = Begin(TaskClient, a)]
  /\ UNCHANGED <<client, sent, slept, statuses, last>>

TaskAttempt(t, o) ==
  /\ call[t].pc = "attempt" /\ AsyncLoopHolders(call) \subseteq {t}
  /\ call' = [call EXCEPT ![t] = Answer(TaskClient, call[t], o)]
  /\ sent' = [sent EXCEPT ![t] = Append(@, call[t].request)]
  /\ statuses' = [statuses EXCEPT ![t] = Append(@, OutcomeStatus(o))]
  /\ last' = [last EXCEPT ![t] = o]
  /\ slept' = [slept EXCEPT ![t] =
                 IF call'[t].pc = "sleeping" THEN Append(@, call'[t].delay) ELSE @]
  /\ UNCHANGED client

TaskWake(t) ==
  /\ call[t].pc = "sleeping"
  /\ call' = [call EXCEPT ![t] = Resume(TaskClient, call[t])]
  /\ UNCHANGED <<client, sent, slept, statuses, last>>

TaskFinished(t) ==
  /\ call[t].pc = "done" /\ AsyncLoopHolders(call) \subseteq {t}
  /\ call' = [call EXCEPT ![t] = IdleCall]
  /\ sent' = [sent EXCEPT ![t] = <<>>]
  /\ slept' = [slept EXCEPT ![t] = <<>>]
  /\ statuses' = [statuses EXCEPT ![t] = <<>>]
  /\ last' = [last EXCEPT ![t] = NoOutcome]
  /\ UNCHANGED client

TaskNext ==
  \/ \E v \in RetryValues : TaskSetMaxRetries(v)
  \/ \E t \in Slots :
       \/ \E a \in TaskCalls : TaskCall(t, a)
       \/ \E o \in TaskOutcomes : TaskAttempt(t, o)
       \/ TaskWake(t)
       \/ TaskFinished(t)

TaskSpec == TaskInit /\ [][TaskNext]_vars

\* the namespace-addressed operations called one after another on one
\* client, with and without an explicit namespace
TenantArgs == {None, Str(<<"tenant_a">>), Str(<<"tenant_b">>), Str(<<" ", "tenant_a">>)}

NamespaceOps ==
  {"upsert", "query", "delete", "get_namespace", "get_namespace_status", "compact"}

TenantCalls ==
  {[DefaultArgs(op) EXCEPT !.namespace = ns, !.vectors = List(<<Doc1>>),
                           !.vector = Vec3, !.ids = List(<<Str(<<"a">>)>>)] :
     op \in NamespaceOps, ns \in TenantArgs}

BodyEcho(namespace) ==
  Dict(<<Entry(<<"namespace">>, Str(<<namespace>>)), Entry(<<"results">>, List(<<>>))>>)

TenantOutcomes ==
  {Replied(Response(200, <<"{\"namespace\":\"", ns, "\",\"results\":[]}">>, BodyEcho(ns))) :
     ns \in {"tenant_a", "tenant_b"}}
  \cup
  {Replied(Response(200, <<"{\"results\":[]}">>,
                    Dict(<<Entry(<<"results">>, List(<<>>))>>))),
   Replied(Response(204, BodyEmpty.text, BodyEmpty.json)),
   Replied(Response(503, BodyError.text, BodyError.json))}

TenantNext ==
  \E s \in Slots :
    \/ \E a \in TenantCalls : Call(s, a)
    \/ \E o \in TenantOutcomes : Attempt(s, o)
    \/ Wake(s)
    \/ Finished(s)

TenantSpec == OpsInit /\ [][TenantNext]_vars

\* query called over its vector, text, mode and alpha arguments
ModeCalls ==
  QueryCalls
  \cup
  {[DefaultArgs("query") EXCEPT !.vector = v, !.text = t, !.mode = m, !.alpha = al] :
     v \in {None, Vec3, List(<<Float(100), NonFinite("nan")>>),
            List(<<NonFinite("inf"), Float(0)>>), Tuple(<<Num(1), Bool(TRUE)>>)},
     t \in {None, Str(<<"hello">>), Str(<<" ", " ">>)},
     m \in {None, Str(<<"vector">>), Enum("QueryMode", <<"text">>), Str(<<"hybrid">>)},
     al \in {None, Float(-200), Float(250), Num(3), NonFinite("inf"), Str(<<"0.5">>)}}

ModeOutcomes ==
  {Replied(Response(200, BodyResults.text, BodyResults.json)),
   Replied(Response(503, BodyError.text, BodyError.json))}

ModeNext ==
  \E s \in Slots :
    \/ \E a \in ModeCalls : Call(s, a)
    \/ \E o \in ModeOutcomes : Attempt(s, o)
    \/ Wake(s)
    \/ Finished(s)

ModeSpec == OpsInit /\ [][ModeNext]_vars

\* the module-level helpers called on their own: call[s] holds the
\* arguments of the latest call of a helper and what it returned or raised
HelperArgs(op, first, second) == [op |-> op, first |-> first, second |-> second]

HelperCall(op, first, second, result) ==
  [IdleCall EXCEPT !.pc = "done", !.args = HelperArgs(op, first, second),
                   !.result = result]

\* the helpers need no client; the one of slot 1 makes the queries that
\* carry what a helper returned
\* the helpers are functions called by one caller, one at a time
NoCallRunning == \A u \in Slots : call[u].pc = "idle"

HelperInit ==
  /\ client \in Constructions({Str(<<"default">>)})
  /\ call = [s \in Slots |-> IdleCall]
  /\ sent = Empty
  /\ slept = Empty
  /\ statuses = Empty
  /\ last = [s \in Slots |-> NoOutcome]

NamespaceValues ==
  {None, Str(<<"tenant">>), Str(<<" ", " ", "tenant", " ">>), Str(<<>>),
   Str(<<" ", " ", " ">>), Str(<<"a", " ", "b">>), Num(1), Enum("QueryMode", <<"text">>)}

DefaultValues == {Str(<<"default">>), Str(<<" ", "docs">>), Str(<<" ">>)}

\* _normalize_namespace(namespace, default)
CallNormalizeNamespace(s, namespace, default) ==
  /\ NoCallRunning
  /\ call' = [call EXCEPT ![s] =
                HelperCall("_normalize_namespace", namespace, default,
                           NormalizeNamespace(namespace, default))]
  /\ UNCHANGED <<client, sent, slept, statuses, last>>

AlphaValues ==
  {None, Float(-200), Float(0), Float(300), Float(1000), Float(1500), Num(-1),
   Num(0), Num(1), Num(3), Bool(TRUE), NonFinite("nan"), NonFinite("inf"),
   NonFinite("-inf"), Str(<<"bad">>), List(<<>>)}

\* _normalize_alpha(alpha)
CallNormalizeAlpha(s, alpha) ==
  /\ NoCallRunning
  /\ call' = [call EXCEPT ![s] =
                HelperCall("_normalize_alpha", alpha, Bool(FALSE), NormalizeAlpha(alpha))]
  /\ UNCHANGED <<client, sent, slept, statuses, last>>

\* _normalize_alpha(_normalize_alpha(alpha)): the helper applied to what it
\* has just returned
CallNormalizeAlphaAgain(s) ==
  /\ call[s].pc = "done" /\ call[s].args.op = "_normalize_alpha"
  /\ call[s].args.second = Bool(FALSE) /\ call[s].result.kind = "return"
  /\ call' = [call EXCEPT ![s] =
                HelperCall("_normalize_alpha", call[s].result.value, Bool(TRUE),
                           NormalizeAlpha(call[s].result.value))]
  /\ UNCHANGED <<client, sent, slept, statuses, last>>

\* the documents batches are made of
DocumentPool ==
  {Document(Str(<<"a">>), Vec2, None, None),
   Document(Str(<<"b">>), Vec3, Str(<<"hello">>), Dict(<<Entry(<<"tag">>, Num(1))>>)),
   Document(Str(<<"c">>), Tuple(<<Num(1), Float(500), Num(0)>>), None, None),
   Document(Str(<<" ">>), Vec3, None, None)}

Batches ==
  {List(<<>>), Object}
  \cup UNION {{List(b) : b \in [1..n -> DocumentPool]} : n \in 1..MaxBatch}

\* _validate_documents(vectors)
CallValidateDocuments(s, vectors) ==
  /\ NoCallRunning
  /\ call' = [call EXCEPT ![s] =
                HelperCall("_validate_documents", vectors, None,
                           ValidateDocuments(vectors))]
  /\ UNCHANGED <<client, sent, slept, statuses, last>>

\* what the service may put under score, dist and distance: Object for
\* a key that is not there
ScoreValues(number) == {Object, None, Num(0), Float(0), Bool(FALSE), Float(number)}

ResultItem(id, score, dist, distance) ==
  Dict(<<Entry(<<"id">>, Str(<<id>>))>>
       \o (IF score = Object THEN <<>> ELSE <<Entry(<<"score">>, score)>>)
       \o (IF dist = Object THEN <<>> ELSE <<Entry(<<"dist">>, dist)>>)
       \o (IF distance = Object THEN <<>> ELSE <<Entry(<<"distance">>, distance)>>))

ResultItems ==
  {ResultItem("a", sc, di, dn) :
     sc \in ScoreValues(100), di \in ScoreValues(200), dn \in ScoreValues(300)}

ResultsValues ==
  {List(<<item>>) : item \in ResultItems}
  \cup {Dict(<<Entry(<<"results">>, List(<<item>>))>>) :
          item \in {ResultItem("a", sc, di, Object) :
                      sc \in ScoreValues(100), di \in ScoreValues(200)}}
  \cup {List(<<ResultItem("a", Object, Float(200), Object),
               ResultItem("b", Float(100), Float(200), Float(300)),
               ResultItem("c", Object, Object, Object)>>),
        Dict(<<Entry(<<"vectors">>,
                     List(<<ResultItem("a", Object, Object, Num(2))>>))>>)}

\* _parse_vector_results(data)
CallParseVectorResults(s, data) ==
  /\ NoCallRunning
  /\ call' = [call EXCEPT ![s] =
                HelperCall("_parse_vector_results", data, None, ParseVectorResults(data))]
  /\ UNCHANGED <<client, sent, slept, statuses, last>>

HelperQueries ==
  {[DefaultArgs("query") EXCEPT !.vector = v, !.alpha = al] :
     v \in {Vec3}, al \in AlphaValues}

HelperUpserts == {[DefaultArgs("upsert") EXCEPT !.vectors = b] : b \in Batches}

HelperOutcomes == {Replied(Response(200, BodyResults.text, BodyResults.json))}

HelperNext ==
  \E s \in Slots :
    \/ \E v \in NamespaceValues, d \in DefaultValues : CallNormalizeNamespace(s, v, d)
    \/ \E al \in AlphaValues : CallNormalizeAlpha(s, al)
    \/ CallNormalizeAlphaAgain(s)
    \/ \E b \in Batches : CallValidateDocuments(s, b)
    \/ \E d \in ResultsValues : CallParseVectorResults(s, d)
    \/ \E a \in HelperQueries \cup HelperUpserts : NoCallRunning /\ Call(s, a)
    \/ \E o \in HelperOutcomes : Attempt(s, o)
    \/ Finished(s)

HelperSpec == HelperInit /\ [][HelperNext]_vars

\* the parsers of replies called on their own, over the shapes a decoded
\* JSON body can take
\* what a list of a reply may hold: result objects and values that are not
\* objects
ShapeItems ==
  {ResultItem("a", Float(100), Object, Object),
   ResultItem("b", Object, Float(200), Object),
   Str(<<"bad">>), Num(7), None}

ShapeLists ==
  {<<>>} \cup UNION {[1..n -> ShapeItems] : n \in 1..2}

\* what may stand where a list is expected
NotLists == {None, Str(<<"shape">>), Num(1), Dict(<<>>)}

ShapeValues ==
  {List(l) : l \in ShapeLists}
  \cup {Dict(<<Entry(<<k>>, List(l))>>) :
          k \in {"results", "vectors", "items"}, l \in ShapeLists}
  \cup {Dict(<<Entry(<<"vectors">>, List(<<ResultItem("b", Object, Float(200), Object)>>)),
               Entry(<<"results">>, List(l))>>) : l \in ShapeLists}
  \cup {Dict(<<Entry(<<"results">>, x), Entry(<<"vectors">>, List(l))>>) :
          x \in NotLists, l \in {<<>>, <<ResultItem("a", Float(100), Object, Object)>>,
                                 <<Num(7)>>}}
  \cup {Dict(<<Entry(<<k>>, x)>>) : k \in {"results", "vectors", "bad"}, x \in NotLists}
  \cup {Dict(<<>>), None, Str(<<"results">>), Num(0), Bool(TRUE)}

\* what a reply may carry under namespace and under ns: Object for a key
\* that is not there
EmbeddedNamespaces ==
  {Object, None, Str(<<"docs">>), Str(<<" ", "docs", " ">>), Str(<<>>),
   Str(<<" ", " ">>), Num(5), Bool(FALSE), List(<<Str(<<"docs">>)>>)}

QueryReply(namespace, ns, key) ==
  Dict((IF namespace = Object THEN <<>> ELSE <<Entry(<<"namespace">>, namespace)>>)
       \o (IF ns = Object THEN <<>> ELSE <<Entry(<<"ns">>, ns)>>)
       \o <<Entry(<<key>>, List(<<ResultItem("a", Float(100), Object, Object)>>))>>)

QueryReplies ==
  {QueryReply(n1, n2, "results") : n1 \in EmbeddedNamespaces, n2 \in EmbeddedNamespaces}
  \cup {QueryReply(Str(<<"docs">>), Object, k) : k \in {"vectors", "items"}}
  \cup {List(<<ResultItem("b", Object, Float(200), Object)>>), List(<<>>), None}

\* _parse_query_response(data, fallback_namespace)
CallParseQueryResponse(s, data, fallback_namespace) ==
  /\ NoCallRunning
  /\ call' = [call EXCEPT ![s] =
                HelperCall("_parse_query_response", data, Str(fallback_namespace),
                           ParseQueryResponse(data, fallback_namespace))]
  /\ UNCHANGED <<client, sent, slept, statuses, last>>

\* what a list of namespaces may hold: namespace objects, bare names and
\* values that are neither
NamespaceItems ==
  {Dict(<<Entry(<<"namespace">>, Str(<<"a">>)), Entry(<<"approx_count">>, Num(2)),
          Entry(<<"dimensions">>, Num(3)), Entry(<<"pending_compaction">>, Bool(TRUE))>>),
   Dict(<<Entry(<<"namespace">>, Str(<<"c">>))>>),
   Str(<<"b">>), Num(5), None, List(<<Str(<<"d">>)>>)}

NamespaceLists ==
  {<<>>} \cup UNION {[1..n -> NamespaceItems] : n \in 1..2}

NamespaceReplies ==
  {List(l) : l \in NamespaceLists}
  \cup {Dict(<<Entry(<<k>>, List(l))>>) :
          k \in {"namespaces", "namespace_list", "items"}, l \in NamespaceLists}
  \cup {Dict(<<Entry(<<"namespaces">>, x), Entry(<<"namespace_list">>, List(<<Str(<<"b">>)>>))>>) :
          x \in NotLists \cup {List(<<Str(<<"a">>)>>)}}
  \cup {Dict(<<Entry(<<k>>, x)>>) : k \in {"namespaces", "namespace_list"}, x \in NotLists}
  \cup {Dict(<<>>), None, Str(<<"namespaces">>), Num(0)}

\* _parse_namespaces(data)
CallParseNamespaces(s, data) ==
  /\ NoCallRunning
  /\ call' = [call EXCEPT ![s] =
                HelperCall("_parse_namespaces", data, None, ParseNamespaces(data))]
  /\ UNCHANGED <<client, sent, slept, statuses, last>>

\* what an error body may carry under error and under message: Object for
\* a key that is not there
ErrorFields ==
  {Object, None, Str(<<"busy">>), Str(<<" ", "busy">>), Str(<<>>), Str(<<" ", " ">>),
   Num(5), Dict(<<Entry(<<"code">>, Num(5))>>)}

ErrorBody(error, message) ==
  [text |-> <<"{", "...", "}">>,
   json |-> Dict((IF error = Object THEN <<>> ELSE <<Entry(<<"error">>, error)>>)
                 \o (IF message = Object THEN <<>>
                     ELSE <<Entry(<<"message">>, message)>>))]

ErrorBodies ==
  {ErrorBody(e, m) : e \in ErrorFields, m \in ErrorFields}
  \cup {BodyEmpty, BodyBlank, BodyNotJson, BodyNull,
        [text |-> <<" ", "oops", " ">>, json |-> InvalidJson],
        [text |-> <<"\"busy\"">>, json |-> Str(<<"busy">>)],
        [text |-> <<" ", "[]">>, json |-> List(<<>>)]}

ErrorResponses == {Response(st, b.text, b.json) : st \in {400, 503}, b \in ErrorBodies}

\* the response as the argument of a helper call
ResponseValue(response) ==
  Val("Response", FALSE, response.status, response.text, <<response.json>>)

\* _extract_error_message(response)
CallExtractErrorMessage(s, response) ==
  /\ NoCallRunning
  /\ call' = [call EXCEPT ![s] =
                HelperCall("_extract_error_message", ResponseValue(response), None,
                           Return(Str(ExtractErrorMessage(response))))]
  /\ UNCHANGED <<client, sent, slept, statuses, last>>

ParseNext ==
  \E s \in Slots :
    \/ \E d \in ShapeValues : CallParseVectorResults(s, d)
    \/ \E d \in QueryReplies : CallParseQueryResponse(s, d, <<"fallback">>)
    \/ \E d \in NamespaceReplies : CallParseNamespaces(s, d)
    \/ \E r \in ErrorResponses : CallExtractErrorMessage(s, r)
    \/ Finished(s)

ParseSpec == HelperInit /\ [][ParseNext]_vars

\* the public operations, each called with valid arguments, against a
\* service that may reply with any JSON value
ReplyCalls ==
  {DefaultArgs(op) : op \in {"health", "get_namespace", "get_namespace_status",
                             "list_namespaces", "status", "compact"}}
  \cup {[DefaultArgs("health") EXCEPT !.service = Str(<<"ingest">>)],
        [DefaultArgs("upsert") EXCEPT !.vectors = List(<<Doc1>>)],
        [DefaultArgs("query") EXCEPT !.vector = Vec3],
        [DefaultArgs("delete") EXCEPT !.ids = List(<<Str(<<"doc-1">>)>>)]}

\* a body that decodes to the JSON value json
JsonBody(json) == [text |-> <<"<json>">>, json |-> json]

\* what the service may report as its status: Object for no status key
HealthStatuses ==
  {Object, None, Str(<<"healthy">>), Str(<<"unhealthy">>), Str(<<"degraded">>),
   Str(<<>>), Str(<<" ", "healthy">>), Num(0), Num(1), Bool(FALSE), Bool(TRUE)}

HealthBodies ==
  {JsonBody(Dict(<<Entry(<<"service">>, Str(<<"query">>))>>
                 \o (IF st = Object THEN <<>> ELSE <<Entry(<<"status">>, st)>>))) :
     st \in HealthStatuses}

\* null, text that is not a number, a fraction and a list where a count,
\* a score or a timestamp is expected
CountValues == {Num(2), None, Str(<<"12">>), Str(<<"many">>), Float(2500), List(<<>>)}

TimeValues ==
  {None, Str(<<"2025-01-01T00:00:00", "Z">>), Str(<<"yesterday">>), Str(<<>>), Num(5)}

MalformedBodies ==
  {JsonBody(Dict(<<Entry(<<"namespace">>, Str(<<"docs">>)), Entry(<<k>>, x)>>)) :
     k \in {"approx_count", "dimensions", "wal_files", "total_vecs"}, x \in CountValues}
  \cup {JsonBody(Dict(<<Entry(<<"last_run">>, t)>>)) : t \in TimeValues}
  \cup {JsonBody(Dict(<<Entry(<<"results">>,
                              List(<<Dict(<<Entry(<<"id">>, Str(<<"a">>)),
                                            Entry(<<"score">>, x)>>)>>))>>)) :
          x \in CountValues}
  \cup {JsonBody(List(<<Dict(<<Entry(<<"approx_count">>, x)>>)>>)) : x \in CountValues}
  \cup {JsonBody(j) : j \in {None, List(<<>>), List(<<Num(5)>>), Str(<<"healthy">>),
                             Num(1), Dict(<<>>)}}

ReplyOutcomes ==
  {Replied(Response(200, b.text, b.json)) :
     b \in HealthBodies \cup MalformedBodies \cup {BodyEmpty, BodyNotJson, BodyResults,
                                                   BodyStatus}}
  \cup {Replied(Response(204, BodyEmpty.text, BodyEmpty.json)),
        Replied(Response(404, BodyError.text, BodyError.json)),
        Replied(Response(500, BodyNull.text, BodyNull.json)),
        Replied(Response(503, BodyMessage.text, BodyMessage.json)),
        Failed(Exc("RequestError", <<"connection refused">>, NoStatus))}

ReplyNext ==
  \E s \in Slots :
    \/ \E a \in ReplyCalls : Call(s, a)
    \/ \E o \in ReplyOutcomes : Attempt(s, o)
    \/ Wake(s)
    \/ Finished(s)

ReplySpec == Init /\ [][ReplyNext]_vars

\* a client used as the target of a with / async with block: the block is
\* entered at construction (__enter__ returns self), operations run inside
\* it, and it is left once
ScopeCalls ==
  {DefaultArgs("status"), DefaultArgs("health"),
   [DefaultArgs("health") EXCEPT !.service = Str(<<"admin">>)],
   [DefaultArgs("upsert") EXCEPT !.vectors = List(<<Doc1>>)],
   [DefaultArgs("query") EXCEPT !.vector = Vec3],
   [DefaultArgs("delete") EXCEPT !.ids = List(<<>>)]}

\* __exit__ / __aexit__: the block is left, after its last statement (no
\* call in flight) or by the exception an operation has raised, and
\* close() runs
ExitBlock(s) ==
  /\ Constructed(s) /\ call[s].pc \in {"idle", "done"}
  /\ client' = [client EXCEPT ![s] = Close(client[s])]
  /\ call' = [call EXCEPT ![s].pc = "exited"]
  /\ UNCHANGED <<sent, slept, statuses, last>>

ScopeNext ==
  \E s \in Slots :
    \/ \E a \in ScopeCalls : Call(s, a)
    \/ \E o \in FewOutcomes : Attempt(s, o)
    \/ Wake(s)
    \/ Finished(s)
    \/ ExitBlock(s)

ScopeSpec == Init /\ [][ScopeNext]_vars

\* a client whose retry fields are reassigned by another task or thread
\* at any moment, also while a call is in flight
TuneMaxRetries(s, v) ==
  /\ Constructed(s)
  /\ client' = [client EXCEPT ![s].max_retries = v]
  /\ UNCHANGED <<call, sent, slept, statuses, last>>

TuneBaseDelay(s, v) ==
  /\ Constructed(s)
  /\ client' = [client EXCEPT ![s].base_delay = v]
  /\ UNCHANGED <<call, sent, slept, statuses, last>>

TuneMaxDelay(s, v) ==
  /\ Constructed(s)
  /\ client' = [client EXCEPT ![s].max_delay = v]
  /\ UNCHANGED <<call, sent, slept, statuses, last>>

TuneCalls == {DefaultArgs("status")}

TuneOutcomes ==
  {Replied(Response(200, BodyStatus.text, BodyStatus.json)),
   Replied(Response(503, BodyError.text, BodyError.json)),
   Failed(Exc("RequestError", <<"connection refused">>, NoStatus))}

TuneNext ==
  \E s \in Slots :
    \/ \E v \in RetryValues : TuneMaxRetries(s, v)
    \/ \E v \in BaseDelayValues : TuneBaseDelay(s, v)
    \/ \E v \in MaxDelayValues : TuneMaxDelay(s, v)
    \/ \E a \in TuneCalls : Call(s, a)
    \/ \E o \in TuneOutcomes : Attempt(s, o)
    \/ Wake(s)
    \/ Finished(s)

TuneSpec == Init /\ [][TuneNext]_vars

\* two clients side by side, configured alike, given the same call and fed
\* attempt by attempt with outcomes that are the same or differ only in
\* which retryable failure they are
PairConstructions ==
  {[s \in Slots |-> NewClient(v[s], Str(<<"default">>))] : v \in [Slots -> Variants]}

PairInit ==
  /\ client \in PairConstructions
  /\ call = [s \in Slots |-> IdleCall]
  /\ sent = Empty
  /\ slept = Empty
  /\ statuses = Empty
  /\ last = [s \in Slots |-> NoOutcome]

PairCalls ==
  {[DefaultArgs("query") EXCEPT !.vector = Vec3, !.text = Str(<<"hello">>)],
   [DefaultArgs("get_namespace") EXCEPT !.namespace = Str(<<"missing">>)],
   [DefaultArgs("delete") EXCEPT !.ids = List(<<>>)]}

PairOutcomes ==
  {Replied(Response(200, BodyResults.text, BodyResults.json)),
   Replied(Response(200, BodyNotJson.text, BodyNotJson.json)),
   Replied(Response(204, BodyEmpty.text, BodyEmpty.json)),
   Replied(Response(404, BodyError.text, BodyError.json)),
   Replied(Response(500, BodyEmpty.text, BodyEmpty.json)),
   Replied(Response(503, BodyError.text, BodyError.json)),
   Replied(Response(503, BodyEmpty.text, BodyEmpty.json)),
   Failed(Exc("RequestError", <<"connection refused">>, NoStatus))}

PairedOutcomes ==
  {o \in [Slots -> PairOutcomes] :
     \/ o[1] = o[2]
     \/ /\ o[1].kind # o[2].kind
        /\ \A s \in Slots : o[s].kind = "transport" \/ o[s].response.status = 503}

AllIdle == \A s \in Slots : call[s].pc = "idle"

PairSetMaxRetries(v) ==
  /\ AllIdle
  /\ client' = [s \in Slots |-> [client[s] EXCEPT !.max_retries = v]]
  /\ UNCHANGED <<call, sent, slept, statuses, last>>

PairSetBaseDelay(v) ==
  /\ AllIdle
  /\ client' = [s \in Slots |-> [client[s] EXCEPT !.base_delay = v]]
  /\ UNCHANGED <<call, sent, slept, statuses, last>>

PairSetMaxDelay(v) ==
  /\ AllIdle
  /\ client' = [s \in Slots |-> [client[s] EXCEPT !.max_delay = v]]
  /\ UNCHANGED <<call, sent, slept, statuses, last>>

PairCall(a) ==
  /\ AllIdle
  /\ call' = [s \in Slots |-> Begin(client[s], a)]
  /\ UNCHANGED <<client, sent, slept, statuses, last>>

PairAttempt(o) ==
  LET on == {s \in Slots : call[s].pc = "attempt"}
  IN /\ on # {}
     /\ call' = [s \in Slots |->
                   IF s \in on THEN Answer(client[s], call[s], o[s]) ELSE call[s]]
     /\ sent' = [s \in Slots |->
                   IF s \in on THEN Append(sent[s], call[s].request) ELSE sent[s]]
     /\ statuses' = [s \in Slots |->
                       IF s \in on THEN Append(statuses[s], OutcomeStatus(o[s]))
                       ELSE statuses[s]]
     /\ last' = [s \in Slots |-> IF s \in on THEN o[s] ELSE last[s]]
     /\ slept' = [s \in Slots |->
                    IF s \in on /\ call'[s].pc = "sleeping"
                    THEN Append(slept[s], call'[s].delay) ELSE slept[s]]
     /\ UNCHANGED client

PairWake ==
  /\ \E s \in Slots : call[s].pc = "sleeping"
  /\ call' = [s \in Slots |->
                IF call[s].pc = "sleeping" THEN Resume(client[s], call[s]) ELSE call[s]]
  /\ UNCHANGED <<client, sent, slept, statuses, last>>

PairFinished ==
  /\ \A s \in Slots : call[s].pc = "done"
  /\ call' = [s \in Slots |-> IdleCall]
  /\ sent' = Empty
  /\ slept' = Empty
  /\ statuses' = Empty
  /\ last' = [s \in Slots |-> NoOutcome]
  /\ UNCHANGED client

PairNext ==
  \/ \E v \in RetryValues : PairSetMaxRetries(v)
  \/ \E v \in BaseDelayValues : PairSetBaseDelay(v)
  \/ \E v \in MaxDelayValues : PairSetMaxDelay(v)
  \/ \E a \in PairCalls : PairCall(a)
  \/ \E o \in PairedOutcomes : PairAttempt(o)
  \/ PairWake
  \/ PairFinished

PairSpec == PairInit /\ [][PairNext]_vars

\* ======================================================== retry properties
\* the replies and failures _with_retry retries on
Retryable(status) == status = 503 \/ status = NoStatus

AllRetryable(seq) == \A i \in 1..Len(seq) : Retryable(seq[i])

\* a logical call has reached the executor at least once
Attempted(s) == sent[s] # <<>>

\* C1: a logical call makes at most max_retries + 1 attempts; when every
\* attempt failed with a 503 or a transport failure it has made exactly
\* max_retries + 1 attempts once it is over, it is over as soon as it has
\* made that many, and it ends by raising.
C1_BoundedAttempts ==
  \A s \in Slots :
    /\ Len(sent[s]) <= client[s].max_retries + 1
    /\ (Attempted(s) /\ AllRetryable(statuses[s])) =>
         /\ call[s].pc = "done" <=> Len(sent[s]) = client[s].max_retries + 1
         /\ call[s].pc = "done" => call[s].data.kind = "raise"

C1_Witness ==
  \E s \in Slots :
    /\ call[s].pc = "done" /\ client[s].max_retries = 2
    /\ statuses[s] = <<503, NoStatus, 503>>
    /\ call[s].data.kind = "raise"

\* C2: when the first k attempts are answered 503 and the next one is
\* answered with a status below 400, the call is over after k + 1 attempts
\* and k suspensions, and returns the decoded body of that reply; at the
\* class defaults two 503s then a success are 3 attempts with suspensions of
\* 0.5 s then 1.0 s.
Only503(seq) == \A i \in 1..Len(seq) : seq[i] = 503

C2_RetryThenSuccess ==
  \A s \in Slots :
    (/\ Attempted(s)
     /\ Only503(SubSeq(statuses[s], 1, Len(statuses[s]) - 1))
     /\ last[s].kind = "response" /\ last[s].response.status < 400) =>
      /\ call[s].pc = "done"
      /\ Len(sent[s]) = Len(statuses[s]) /\ Len(slept[s]) = Len(statuses[s]) - 1
      /\ Len(sent[s]) <= client[s].max_retries + 1
      /\ (last[s].response.json.t # "invalid" /\ last[s].response.status # 204) =>
           call[s].data = Return(last[s].response.json)
      /\ (/\ client[s].max_retries = 3 /\ client[s].base_delay = 500
          /\ client[s].max_delay = 10000 /\ Len(statuses[s]) = 3) =>
           slept[s] = <<500, 1000>>

C2_Witness ==
  \E s \in Slots :
    /\ client[s].max_retries = 3 /\ client[s].base_delay = 500
    /\ client[s].max_delay = 10000
    /\ statuses[s] = <<503, 503, 200>> /\ Len(sent[s]) = 3
    /\ slept[s] = <<500, 1000>>
    /\ call[s].pc = "done" /\ call[s].data = Return(BodyOk.json)

\* C3: the i-th suspension of a call lasts min(base_delay * 2^(i-1),
\* max_delay), never more than max_delay and never less than the one
\* before it; a call suspends once after each failed attempt that is not
\* the last permitted one and never after that one.
C3_Backoff ==
  \A s \in Slots :
    /\ \A i \in 1..Len(slept[s]) :
         /\ slept[s][i] = Min(client[s].base_delay * 2 ^ (i - 1), client[s].max_delay)
         /\ slept[s][i] <= client[s].max_delay
         /\ i > 1 => slept[s][i - 1] <= slept[s][i]
    /\ Len(slept[s]) <= client[s].max_retries
    /\ call[s].pc = "sleeping" =>
         /\ Len(slept[s]) = Len(sent[s])
         /\ call[s].delay = slept[s][Len(slept[s])]
         /\ call[s].attempt < client[s].max_retries
    /\ call[s].pc = "attempt" => Len(slept[s]) = Len(sent[s])
    /\ (call[s].pc = "done" /\ Attempted(s)) => Len(slept[s]) = Len(sent[s]) - 1

C3_Witness ==
  \E s \in Slots :
    /\ call[s].pc = "done" /\ client[s].max_retries = 3
    /\ Len(sent[s]) = 4
    /\ slept[s] = <<500, 1000, 1000>>

\* C4: a reply with a status of 400 or more other than 503 ends the call
\* on the attempt it arrives on: no suspension follows it, and the call
\* raises an error carrying that status; a 400 on query is a
\* ValidationError and a 404 on get_namespace a NotFoundError.
C4_NoRetryOnClientError ==
  \A s \in Slots :
    (/\ last[s].kind = "response"
     /\ last[s].response.status >= 400 /\ last[s].response.status # 503) =>
      /\ call[s].pc = "done"
      /\ Len(sent[s]) = Len(statuses[s]) /\ Len(slept[s]) = Len(sent[s]) - 1
      /\ call[s].result.kind = "raise"
      /\ call[s].result.exc.status_code = last[s].response.status
      /\ (call[s].args.op = "query" /\ last[s].response.status = 400) =>
           call[s].result.exc.cls = "ValidationError"
      /\ (call[s].args.op = "get_namespace" /\ last[s].response.status = 404) =>
           call[s].result.exc.cls = "NotFoundError"

C4_Witness ==
  \E s \in Slots :
    /\ call[s].args.op = "get_namespace"
    /\ statuses[s] = <<503, NoStatus, 404>>
    /\ call[s].pc = "done" /\ call[s].result.exc.cls = "NotFoundError"

\* C5: a call that ends on a reply with a status of 400 or more raises
\* ValidationError for 400 and 413, NotFoundError for 404,
\* ServiceUnavailableError for 503 and the base TidepoolError for any other
\* status, with that status as the error's status_code.
MappedError(status) ==
  CASE status \in {400, 413} -> "ValidationError"
    [] status = 404 -> "NotFoundError"
    [] status = 503 -> "ServiceUnavailableError"
    [] OTHER -> "TidepoolError"

C5_StatusMapping ==
  \A s \in Slots :
    (/\ call[s].pc = "done" /\ last[s].kind = "response"
     /\ last[s].response.status >= 400) =>
      /\ call[s].result.kind = "raise"
      /\ call[s].result.exc.cls = MappedError(last[s].response.status)
      /\ call[s].result.exc.status_code = last[s].response.status

C5_Witness ==
  \E s \in Slots :
    /\ call[s].pc = "done" /\ last[s].kind = "response"
    /\ last[s].response.status = 413
    /\ call[s].result.exc = ValidationError(<<"down">>, 413)

\* C6: a call that has used up its attempts raises the error of its last
\* attempt: the ServiceUnavailableError of that 503 reply, or a base
\* TidepoolError with the string form of that transport failure as message
\* and no status_code.
C6_LastErrorSurfaced ==
  \A s \in Slots :
    (/\ call[s].pc = "done" /\ Attempted(s)
     /\ Retryable(statuses[s][Len(statuses[s])])) =>
      /\ Len(sent[s]) = client[s].max_retries + 1
      /\ last[s].kind = "response" =>
           /\ call[s].result =
                Raise(ServiceUnavailableError(ExtractErrorMessage(last[s].response), 503))
           /\ call[s].result.exc = call[s].last_error
      /\ last[s].kind = "transport" =>
           call[s].result = Raise(TidepoolError(last[s].exc.message, NoStatus))

C6_Witness ==
  \E s \in Slots :
    /\ call[s].pc = "done"
    /\ statuses[s] = <<503, NoStatus>>
    /\ call[s].result = Raise(TidepoolError(<<"connection refused">>, NoStatus))

\* C8: a call that ends on a reply with a status below 400 returns None
\* when the status is 204 or the body is empty, raises the base
\* TidepoolError with the reply's status when the body is not JSON, and
\* returns the decoded body otherwise; that reply is its last attempt.
C8_SuccessBody ==
  \A s \in Slots :
    (last[s].kind = "response" /\ last[s].response.status < 400) =>
      /\ call[s].pc = "done"
      /\ Len(slept[s]) = Len(sent[s]) - 1
      /\ call[s].data =
           IF last[s].response.status = 204 \/ last[s].response.text = <<>>
           THEN Return(None)
           ELSE IF last[s].response.json.t = "invalid"
           THEN Raise(TidepoolError(<<"Invalid JSON response">>, last[s].response.status))
           ELSE Return(last[s].response.json)

C8_Witness ==
  \E s \in Slots :
    /\ call[s].pc = "done" /\ last[s].kind = "response"
    /\ last[s].response = Response(200, <<"not-json">>, InvalidJson)
    /\ call[s].data = Raise(TidepoolError(<<"Invalid JSON response">>, 200))
    /\ Len(sent[s]) = 2

\* ================================================ two clients side by side
\* the two sequences of attempt outcomes are the same up to which
\* retryable failure (503 or transport) an attempt ended in
SameUpToRetryKind(seq1, seq2) ==
  /\ Len(seq1) = Len(seq2)
  /\ \A i \in 1..Len(seq1) :
       seq1[i] = seq2[i] \/ (Retryable(seq1[i]) /\ Retryable(seq2[i]))

SameConfiguration ==
  /\ client[1].max_retries = client[2].max_retries
  /\ client[1].base_delay = client[2].base_delay
  /\ client[1].max_delay = client[2].max_delay
  /\ client[1].default_namespace = client[2].default_namespace

\* C7: two runs of the same call on clients of one class whose attempts
\* ended alike except that some 503s of one are transport failures of the
\* other (or the reverse) have made the same number of attempts, asked for
\* the same delays and are at the same point of the retry loop.
C7_TransportLike503 ==
  (/\ client[1].variant = client[2].variant
   /\ SameConfiguration /\ call[1].args = call[2].args
   /\ SameUpToRetryKind(statuses[1], statuses[2])) =>
    /\ Len(sent[1]) = Len(sent[2])
    /\ slept[1] = slept[2]
    /\ call[1].pc = call[2].pc
    /\ call[1].attempt = call[2].attempt

C7_Witness ==
  /\ client[1].variant = client[2].variant
  /\ statuses[1] = <<503, NoStatus, 503>>
  /\ statuses[2] = <<NoStatus, 503, NoStatus>>
  /\ Len(sent[1]) = 3 /\ Len(sent[2]) = 3
  /\ slept[1] = <<500, 1000>> /\ slept[2] = <<500, 1000>>
  /\ call[1].result.exc.cls = "ServiceUnavailableError"
  /\ call[2].result.exc.cls = "TidepoolError"

BlankOrNotString(v) == ~IsStr(v) \/ Strip(v.s) = <<>>

NamespaceInvalid(self, a) ==
  BlankOrNotString(IF a.namespace.t = "None" THEN self.default_namespace
                   ELSE a.namespace)

VectorInvalid(v) ==
  \/ ~IsListOrTuple(v)
  \/ v.items = <<>>
  \/ \E i \in 1..Len(v.items) : ~IsNumber(v.items[i])

MappingInvalid(m) ==
  /\ m.t # "None"
  /\ \/ m.t # "dict"
     \/ \E i \in 1..Len(m.items) : ~IsAttrValue(m.items[i].items[1])

DocumentInvalid(d) ==
  \/ d.t # "Document"
  \/ BlankOrNotString(Get(d, <<"id">>))
  \/ VectorInvalid(Get(d, <<"vector">>))
  \/ (Get(d, <<"text">>).t # "None" /\ ~IsStr(Get(d, <<"text">>)))
  \/ MappingInvalid(Get(d, <<"attributes">>))

DocumentsInvalid(vs) ==
  \/ ~IsListOrTuple(vs)
  \/ vs.items = <<>>
  \/ \E i \in 1..Len(vs.items) : DocumentInvalid(vs.items[i])
  \/ \E i \in 1..Len(vs.items) :
       Len(Get(vs.items[i], <<"vector">>).items)
         # Len(Get(vs.items[1], <<"vector">>).items)

IdsInvalid(ids) ==
  \/ ~IsListOrTuple(ids)
  \/ ids.items = <<>>
  \/ \E i \in 1..Len(ids.items) : BlankOrNotString(ids.items[i])

TagInvalid(v, cls, values) ==
  v.t # "None" /\ v.t # cls /\ ~(IsStr(v) /\ v.s \in values)

PositiveIntInvalid(v) == v.t # "None" /\ (~IsInt(v) \/ IntValue(v) <= 0)

QueryInvalid(self, a) ==
  LET hasVector == a.vector.t # "None"
      hasText == IsStr(a.text) /\ Strip(a.text.s) # <<>>
      mode == IF a.mode.t # "None" THEN a.mode.s
              ELSE IF hasVector /\ hasText THEN <<"hybrid">>
              ELSE IF hasText THEN <<"text">>
              ELSE <<"vector">>
  IN \/ PositiveIntInvalid(a.top_k) \/ a.top_k.t = "None"
     \/ MappingInvalid(a.filters)
     \/ PositiveIntInvalid(a.ef_search)
     \/ PositiveIntInvalid(a.nprobe)
     \/ PositiveIntInvalid(a.rrf_k)
     \/ TagInvalid(a.distance_metric, "DistanceMetric", DistanceMetricValues)
     \/ (a.text.t # "None" /\ ~IsStr(a.text))
     \/ (hasVector /\ VectorInvalid(a.vector))
     \/ TagInvalid(a.mode, "QueryMode", QueryModeValues)
     \/ (mode = <<"vector">> /\ ~hasVector)
     \/ (mode = <<"text">> /\ ~hasText)
     \/ (mode = <<"hybrid">> /\ ~(hasVector /\ hasText))
     \/ TagInvalid(a.fusion, "FusionMode", FusionModeValues)
     \/ (a.alpha.t # "None" /\ (~IsNumber(a.alpha) \/ a.alpha.s # <<>>))
     \/ NamespaceInvalid(self, a)

ArgsInvalid(self, a) ==
  CASE a.op = "upsert" ->
         \/ DocumentsInvalid(a.vectors)
         \/ TagInvalid(a.distance_metric, "DistanceMetric", DistanceMetricValues)
         \/ NamespaceInvalid(self, a)
    [] a.op = "query" -> QueryInvalid(self, a)
    [] a.op = "delete" -> IdsInvalid(a.ids) \/ NamespaceInvalid(self, a)
    [] a.op \in {"get_namespace", "get_namespace_status", "compact"} ->
         NamespaceInvalid(self, a)
    [] a.op = "health" ->
         ~(IsStr(a.service) /\ a.service.s \in {<<"query">>, <<"ingest">>})
    [] OTHER -> FALSE

\* C9: a call of a public operation whose arguments break an argument rule
\* is over at once with a ValidationError, and nothing has been handed to
\* the executor for it.
C9_ValidationBeforeIO ==
  \A s \in Slots :
    (call[s].pc # "idle" /\ ArgsInvalid(client[s], call[s].args)) =>
      /\ call[s].pc = "done"
      /\ sent[s] = <<>> /\ statuses[s] = <<>> /\ slept[s] = <<>>
      /\ call[s].request = NoRequest
      /\ call[s].result.kind = "raise"
      /\ call[s].result.exc.cls = "ValidationError"
      /\ call[s].result.exc.status_code = NoStatus

C9_Witness ==
  \E s \in Slots :
    /\ client[s].variant = "async"
    /\ call[s].args.op = "upsert" /\ call[s].args.vectors = List(<<>>)
    /\ call[s].pc = "done" /\ sent[s] = <<>>
    /\ call[s].result = Invalid("Vectors list cannot be empty")

\* every call that ends without reaching the executor broke an argument rule
RejectedOnlyIfInvalid ==
  \A s \in Slots :
    (call[s].pc = "done" /\ sent[s] = <<>>) => ArgsInvalid(client[s], call[s].args)

\* ============================================== calls in flight together
\* what the retry loop of task t holds, worked out from the outcomes of
\* t's own attempts alone
OwnLastError(t) ==
  IF last[t].kind = "transport" THEN last[t].exc
  ELSE IF last[t].kind = "response" /\ last[t].response.status = 503
  THEN ServiceUnavailableError(ExtractErrorMessage(last[t].response), 503)
  ELSE NoError

Called(s, op) == call[s].pc = "done" /\ call[s].args.op = op

\* the string a namespace argument stands for, whitespace removed at both ends
Trimmed(v) == [v EXCEPT !.s = Strip(v.s)]

C13_NamespaceTrimmed ==
  \A s \in Slots :
    Called(s, "_normalize_namespace") =>
      LET taken == IF call[s].args.first = None THEN call[s].args.second
                   ELSE call[s].args.first
      IN IF IsStr(taken) /\ \E i \in 1..Len(taken.s) : taken.s[i] # " "
         THEN /\ call[s].result.kind = "return"
              /\ call[s].result.value =
                   (IF call[s].args.first = None THEN taken ELSE Trimmed(taken))
         ELSE /\ call[s].result.kind = "raise"
              /\ call[s].result.exc.cls = "ValidationError"

\* ============================================================ namespaces
\* the namespace a call addresses: its argument, else the client's default
AddressedNamespace(self, a) ==
  IF a.namespace = None THEN self.default_namespace.s ELSE a.namespace.s

ExpectedPath(op, namespace) ==
  CASE op \in {"upsert", "query", "delete"} -> <<"/v1/vectors/">> \o namespace
    [] op = "get_namespace" -> <<"/v1/namespaces/">> \o namespace
    [] op = "get_namespace_status" -> <<"/v1/namespaces/">> \o namespace \o <<"/status">>
    [] op = "compact" -> <<"/v1/namespaces/">> \o namespace \o <<"/compact">>

\* C14: no step changes a client's default namespace; the path of every
\* request of a namespace-addressed operation is built from that call's
\* namespace argument, or from the client's default when it has none; and
\* a query reports the namespace of the reply, or the one it addressed
\* when the reply names none.
C14_NamespaceOfCall ==
  [][\A s \in Slots :
       /\ client'[s].default_namespace = client[s].default_namespace
       /\ call'[s].request # NoRequest =>
            LET ns == AddressedNamespace(client[s], call'[s].args)
            IN /\ call'[s].request.path = ExpectedPath(call'[s].args.op, ns)
               /\ call'[s].namespace = ns
               /\ (call'[s].args.op = "query" /\ call'[s].result.kind = "return") =>
                    Get(call'[s].result.value, <<"namespace">>) =
                      (IF HasKey(last'[s].response.json, <<"namespace">>)
                       THEN Get(last'[s].response.json, <<"namespace">>)
                       ELSE Str(ns))]_vars

C14_Witness ==
  \E s \in Slots :
    /\ client[s].default_namespace = Str(<<"docs">>)
    /\ call[s].args.op = "query" /\ call[s].args.namespace = Str(<<"tenant_b">>)
    /\ sent[s] # <<>> /\ sent[s][1].path = <<"/v1/vectors/", "tenant_b">>
    /\ call[s].pc = "done"
    /\ Get(call[s].result.value, <<"namespace">>) = Str(<<"tenant_b">>)
    /\ ~HasKey(last[s].response.json, <<"namespace">>)

\* ================================================================ query
NonBlank(v) == IsStr(v) /\ \E i \in 1..Len(v.s) : v.s[i] # " "

\* the mode a query call asks for: the one it names, else the one its
\* inputs imply
AskedMode(a) ==
  IF a.mode # None THEN a.mode.s
  ELSE IF a.vector # None /\ NonBlank(a.text) THEN <<"hybrid">>
  ELSE IF NonBlank(a.text) THEN <<"text">>
  ELSE <<"vector">>

ModeInputsMet(a) ==
  /\ AskedMode(a) = <<"vector">> => a.vector # None
  /\ AskedMode(a) = <<"text">> => NonBlank(a.text)
  /\ AskedMode(a) = <<"hybrid">> => (a.vector # None /\ NonBlank(a.text))

\* C15: a query that builds a request carries as mode the mode it names,
\* or hybrid, text or vector as inferred from its inputs when it names
\* none, and has the inputs of that mode; a query whose mode lacks an input
\* is over with a ValidationError and nothing sent.
C15_QueryMode ==
  \A s \in Slots :
    (call[s].pc # "idle" /\ call[s].args.op = "query") =>
      /\ call[s].request # NoRequest =>
           /\ AskedMode(call[s].args) \in {<<"vector">>, <<"text">>, <<"hybrid">>}
           /\ Get(call[s].request.json_body, <<"mode">>) = Str(AskedMode(call[s].args))
           /\ ModeInputsMet(call[s].args)
      /\ ~ModeInputsMet(call[s].args) =>
           /\ call[s].pc = "done" /\ sent[s] = <<>>
           /\ call[s].request = NoRequest
           /\ call[s].result.kind = "raise"
           /\ call[s].result.exc.cls = "ValidationError"

C15_Witness ==
  \E s \in Slots :
    /\ call[s].args.op = "query" /\ call[s].args.mode = None
    /\ call[s].args.vector = Vec3 /\ call[s].args.text = Str(<<" ", "hello", " ">>)
    /\ sent[s] # <<>>
    /\ Get(sent[s][1].json_body, <<"mode">>) = Str(<<"hybrid">>)

\* C16: the body of every query request has the keys top_k,
\* include_vectors and mode, has the key vector exactly when the call was
\* given a vector, and has the key text exactly when the call's text has
\* something other than whitespace in it, then holding that text without
\* the whitespace at its ends.
C16_QueryPayload ==
  \A s \in Slots :
    (call[s].args.op = "query" /\ call[s].request # NoRequest) =>
      LET a == call[s].args
          body == call[s].request.json_body
      IN /\ body.t = "dict"
         /\ HasKey(body, <<"top_k">>) /\ Get(body, <<"top_k">>) = a.top_k
         /\ HasKey(body, <<"include_vectors">>) /\ HasKey(body, <<"mode">>)
         /\ HasKey(body, <<"vector">>) <=> a.vector # None
         /\ HasKey(body, <<"text">>) <=> NonBlank(a.text)
         /\ NonBlank(a.text) => Get(body, <<"text">>) = Trimmed(a.text)
         /\ \A n \in 1..Len(sent[s]) : sent[s][n] = call[s].request

C16_Witness ==
  \E s \in Slots :
    /\ call[s].args.op = "query" /\ call[s].args.vector = None
    /\ call[s].args.text = Str(<<" ", "hello", " ">>)
    /\ call[s].args.mode = Str(<<"text">>)
    /\ sent[s] # <<>>
    /\ Get(sent[s][1].json_body, <<"mode">>) = Str(<<"text">>)
    /\ Get(sent[s][1].json_body, <<"text">>) = Str(<<"hello">>)
    /\ ~HasKey(sent[s][1].json_body, <<"vector">>)

\* ================================================================ alpha
\* a number that is neither NaN nor an infinity
FiniteNumber(v) == v.t \in {"int", "bool"} \/ (v.t = "float" /\ v.s = <<>>)

\* the number a value stands for, in thousandths
Thousandths(v) ==
  CASE v.t = "float" -> v.n
    [] v.t = "bool" -> (IF v.b THEN 1000 ELSE 0)
    [] v.t = "int" -> v.n * 1000

C18_FiniteVectors ==
  \A s \in Slots :
    call[s].args.op = "query" =>
      /\ \A n \in 1..Len(sent[s]) :
           HasKey(sent[s][n].json_body, <<"vector">>) =>
             LET vector == Get(sent[s][n].json_body, <<"vector">>)
             IN /\ vector.items # <<>>
                /\ \A i \in 1..Len(vector.items) : FiniteNumber(vector.items[i])
      /\ (/\ call[s].pc # "idle" /\ IsListOrTuple(call[s].args.vector)
          /\ \E i \in 1..Len(call[s].args.vector.items) :
               ~FiniteNumber(call[s].args.vector.items[i])) =>
           /\ call[s].pc = "done" /\ sent[s] = <<>>
           /\ call[s].result.kind = "raise"
           /\ call[s].result.exc.cls = "ValidationError"

\* ============================================================ documents
\* a batch of documents each of which is acceptable on its own
BatchOfDocuments(x) ==
  /\ IsListOrTuple(x) /\ x.items # <<>>
  /\ \A i \in 1..Len(x.items) : ~DocumentInvalid(x.items[i])

Dimensions(doc) == Len(Get(doc, <<"vector">>).items)

SameDimensions(x) ==
  \A i \in 1..Len(x.items) : Dimensions(x.items[i]) = Dimensions(x.items[1])

FirstMismatch(x) ==
  CHOOSE i \in 1..Len(x.items) :
    /\ Dimensions(x.items[i]) # Dimensions(x.items[1])
    /\ \A j \in 1..(i - 1) : Dimensions(x.items[j]) = Dimensions(x.items[1])

\* C19: _validate_documents accepts a batch of acceptable documents
\* exactly when every vector has the length of the first document's
\* vector, and then returns one document per input, in order, with the
\* input's id, vector, text and attributes; otherwise it raises the
\* ValidationError naming the first document's length and the length of the
\* first vector that differs; an upsert of a batch with a mismatch is over
\* with that error and nothing sent, and the body of an upsert request
\* holds one entry per document.
C19_BatchDimensions ==
  \A s \in Slots :
    /\ (Called(s, "_validate_documents") /\ BatchOfDocuments(call[s].args.first)) =>
         LET x == call[s].args.first
             r == call[s].result
         IN IF SameDimensions(x)
            THEN /\ r.kind = "return" /\ Len(r.value.items) = Len(x.items)
                 /\ \A i \in 1..Len(x.items) :
                      r.value.items[i] =
                        Document(Get(x.items[i], <<"id">>),
                                 List(Get(x.items[i], <<"vector">>).items),
                                 Get(x.items[i], <<"text">>),
                                 Get(x.items[i], <<"attributes">>))
            ELSE r = Raise(ValidationError(
                       <<"Expected", " ">> \o FormatInt(Dimensions(x.items[1]))
                       \o <<" ", "dimensions, got", " ">>
                       \o FormatInt(Dimensions(x.items[FirstMismatch(x)])), NoStatus))
    /\ (/\ call[s].pc # "idle" /\ call[s].args.op = "upsert"
        /\ BatchOfDocuments(call[s].args.vectors)) =>
         IF SameDimensions(call[s].args.vectors)
         THEN /\ call[s].request # NoRequest
              /\ Len(Get(call[s].request.json_body, <<"vectors">>).items)
                   = Len(call[s].args.vectors.items)
              /\ \A i \in 1..Len(call[s].args.vectors.items) :
                   Get(Get(call[s].request.json_body, <<"vectors">>).items[i], <<"id">>)
                     = Get(call[s].args.vectors.items[i], <<"id">>)
         ELSE /\ call[s].pc = "done" /\ sent[s] = <<>>
              /\ call[s].request = NoRequest
              /\ call[s].result.kind = "raise"
              /\ call[s].result.exc.cls = "ValidationError"

C19_Witness ==
  \E s \in Slots :
    /\ Called(s, "_validate_documents")
    /\ Len(call[s].args.first.items) = 3
    /\ Dimensions(call[s].args.first.items[1]) = 3
    /\ Dimensions(call[s].args.first.items[2]) = 3
    /\ Dimensions(call[s].args.first.items[3]) = 2
    /\ BatchOfDocuments(call[s].args.first)
    /\ call[s].result.kind = "raise"

\* =============================================================== scores
\* the items of a reply: the list itself, or the one under results or vectors
ItemsOf(data) ==
  IF data.t = "list" THEN data.items
  ELSE IF HasKey(data, <<"results">>) THEN Get(data, <<"results">>).items
  ELSE Get(data, <<"vectors">>).items

\* the value an item gives its score: that of the first of the keys score,
\* dist and distance the item has, Object when it has none of them
Resolved(item) ==
  IF HasKey(item, <<"score">>) THEN Get(item, <<"score">>)
  ELSE IF HasKey(item, <<"dist">>) THEN Get(item, <<"dist">>)
  ELSE IF HasKey(item, <<"distance">>) THEN Get(item, <<"distance">>)
  ELSE Object

Falsy(v) == v \in {None, Num(0), Float(0), Bool(FALSE), Str(<<>>)}

\* C20: the score of each parsed item is the number under its key score,
\* else under dist, else under distance, taking the first of these keys the
\* item has, and 0.0 when it has none of them or the value found is None,
\* zero or otherwise falsy.
C20_ScorePrecedence ==
  \A s \in Slots :
    Called(s, "_parse_vector_results") =>
      LET items == ItemsOf(call[s].args.first)
          r == call[s].result
      IN /\ r.kind = "return" /\ Len(r.value.items) = Len(items)
         /\ \A i \in 1..Len(items) :
              /\ Get(r.value.items[i], <<"id">>) = Get(items[i], <<"id">>)
              /\ Get(r.value.items[i], <<"score">>) =
                   (IF Resolved(items[i]) = Object \/ Falsy(Resolved(items[i]))
                    THEN Float(0)
                    ELSE Float(Thousandths(Resolved(items[i]))))

C20_Witness ==
  \E s \in Slots :
    /\ Called(s, "_parse_vector_results")
    /\ call[s].args.first =
         List(<<ResultItem("a", Object, Float(200), Object),
                ResultItem("b", Float(100), Float(200), Float(300)),
                ResultItem("c", Object, Object, Object)>>)
    /\ Get(call[s].result.value.items[1], <<"score">>) = Float(200)
    /\ Get(call[s].result.value.items[2], <<"score">>) = Float(100)
    /\ Get(call[s].result.value.items[3], <<"score">>) = Float(0)

\* =============================================================== shapes
\* the list a reply carries its results in, Object when it carries none:
\* the reply itself, the list under results, or else the list under vectors
ResultList(data) ==
  IF data.t = "list" THEN data
  ELSE IF data.t = "dict" /\ Get(data, <<"results">>).t = "list"
  THEN Get(data, <<"results">>)
  ELSE IF data.t = "dict" /\ Get(data, <<"vectors">>).t = "list"
  THEN Get(data, <<"vectors">>)
  ELSE Object

AllObjects(items) == \A i \in 1..Len(items) : items[i].t = "dict"

\* C21: _parse_vector_results takes a list of result objects, an object
\* whose results is a list, or an object whose vectors is a list, results
\* first when both are lists, and returns one VectorResult per item in
\* order; every other shape, and every list with an item that is not an
\* object, raises the base TidepoolError.
C21_ResultShapes ==
  \A s \in Slots :
    Called(s, "_parse_vector_results") =>
      LET list == ResultList(call[s].args.first)
          r == call[s].result
      IN IF list # Object /\ AllObjects(list.items)
         THEN /\ r.kind = "return" /\ r.value.t = "list"
              /\ Len(r.value.items) = Len(list.items)
              /\ \A i \in 1..Len(list.items) :
                   /\ r.value.items[i].t = "VectorResult"
                   /\ Get(r.value.items[i], <<"id">>) = Get(list.items[i], <<"id">>)
         ELSE r.kind = "raise" /\ r.exc.cls = "TidepoolError"

C21_Witness ==
  \E s \in Slots :
    /\ Called(s, "_parse_vector_results")
    /\ call[s].args.first.t = "dict"
    /\ Get(call[s].args.first, <<"vectors">>).t = "list"
    /\ Get(call[s].args.first, <<"results">>).t = "list"
    /\ Len(Get(call[s].args.first, <<"results">>).items) = 2
    /\ call[s].result.kind = "return"
    /\ Len(call[s].result.value.items) = 2
    /\ Get(call[s].result.value.items[1], <<"id">>) = Str(<<"b">>)
    /\ Get(call[s].result.value.items[2], <<"id">>) = Str(<<"a">>)

\* ==================================================== response namespace
UsableNamespace(v) == IsStr(v) /\ Strip(v.s) # <<>>

\* the namespace a reply embeds, Object when it embeds none: the first of
\* namespace and ns that is a non-blank string
FirstUsable(data) ==
  IF data.t # "dict" THEN Object
  ELSE IF UsableNamespace(Get(data, <<"namespace">>)) THEN Get(data, <<"namespace">>)
  ELSE IF UsableNamespace(Get(data, <<"ns">>)) THEN Get(data, <<"ns">>)
  ELSE Object

\* the namespace a reply embeds, Object when it embeds none: the value under
\* namespace when that value is truthy, else the one under ns, provided the
\* value so chosen is a non-blank string
ChosenUsable(data) ==
  IF data.t # "dict" THEN Object
  ELSE LET chosen == IF Truthy(Get(data, <<"namespace">>))
                     THEN Get(data, <<"namespace">>) ELSE Get(data, <<"ns">>)
       IN IF UsableNamespace(chosen) THEN chosen ELSE Object

Parsed(s) == Called(s, "_parse_query_response") /\ call[s].result.kind = "return"

\* C22 as stated: the namespace of a parsed query response is the first of
\* namespace and ns that is a non-blank string, and the fallback when
\* neither is.
C22_NamespaceFirstUsable ==
  \A s \in Slots :
    Parsed(s) =>
      Get(call[s].result.value, <<"namespace">>) =
        (IF FirstUsable(call[s].args.first) = Object THEN call[s].args.second
         ELSE FirstUsable(call[s].args.first))

\* C22: the namespace of a parsed query response is the value under
\* namespace when that value is truthy and else the value under ns, when the
\* value so chosen is a non-blank string; it is the fallback otherwise, and
\* always for a bare list.
C22_NamespaceChosen ==
  \A s \in Slots :
    Parsed(s) =>
      Get(call[s].result.value, <<"namespace">>) =
        (IF ChosenUsable(call[s].args.first) = Object THEN call[s].args.second
         ELSE ChosenUsable(call[s].args.first))

C22_Witness ==
  \E s \in Slots :
    /\ Parsed(s)
    /\ Get(call[s].args.first, <<"namespace">>) = Str(<<" ", " ">>)
    /\ Get(call[s].args.first, <<"ns">>) = Str(<<"docs">>)
    /\ Get(call[s].result.value, <<"namespace">>) = Str(<<"fallback">>)

\* ====================================================== namespace lists
\* the list a reply carries its namespaces in, Object when it carries none
NamespaceList(data) ==
  IF data.t = "list" THEN data
  ELSE IF data.t = "dict" /\ Get(data, <<"namespaces">>).t = "list"
  THEN Get(data, <<"namespaces">>)
  ELSE IF data.t = "dict" /\ Get(data, <<"namespace_list">>).t = "list"
  THEN Get(data, <<"namespace_list">>)
  ELSE Object

\* a NamespaceInfo with only the name populated
NameOnly(name) ==
  Val("NamespaceInfo", FALSE, 0, <<>>,
      <<Entry(<<"namespace">>, name), Entry(<<"approx_count">>, Num(0)),
        Entry(<<"dimensions">>, Num(0)), Entry(<<"pending_compaction">>, None)>>)

ObjectsAndNames(items) ==
  \A i \in 1..Len(items) : items[i].t = "dict" \/ IsStr(items[i])

\* C23: _parse_namespaces takes a list, an object whose namespaces is a
\* list, or an object whose namespace_list is a list; it returns one
\* namespace-info per item in order, an object parsed and a bare name
\* wrapped with only the name populated; every other shape, and every list
\* with an item that is neither an object nor a string, raises the base
\* TidepoolError.
C23_NamespaceShapes ==
  \A s \in Slots :
    Called(s, "_parse_namespaces") =>
      LET list == NamespaceList(call[s].args.first)
          r == call[s].result
      IN IF list # Object /\ ObjectsAndNames(list.items)
         THEN /\ r.kind = "return" /\ Len(r.value.items) = Len(list.items)
              /\ \A i \in 1..Len(list.items) :
                   IF IsStr(list.items[i])
                   THEN r.value.items[i] = NameOnly(list.items[i])
                   ELSE /\ r.value.items[i].t = "NamespaceInfo"
                        /\ Get(r.value.items[i], <<"namespace">>) =
                             Get(list.items[i], <<"namespace">>)
         ELSE r.kind = "raise" /\ r.exc.cls = "TidepoolError"

\* ======================================================= error messages
\* what is left when the body gives no message: the trimmed text of the
\* response, or "HTTP <status>" when there is none
TextOrStatus(response) ==
  IF Strip(response.s) # <<>> THEN Strip(response.s)
  ELSE <<"HTTP", " ">> \o FormatInt(response.n)

Field(response, key) ==
  IF response.items[1].t = "dict" THEN Get(response.items[1], key) ELSE None

\* C24 as stated: the message is the error field if that is a non-blank
\* string, else the message field if that is a non-blank string, else the
\* trimmed text, else "HTTP <status>".
C24_MessageFirstUsable ==
  \A s \in Slots :
    Called(s, "_extract_error_message") =>
      LET response == call[s].args.first
      IN call[s].result.value.s =
           (IF UsableNamespace(Field(response, <<"error">>))
            THEN Field(response, <<"error">>).s
            ELSE IF UsableNamespace(Field(response, <<"message">>))
            THEN Field(response, <<"message">>).s
            ELSE TextOrStatus(response))

\* C24: the message is the value of the error field when that value is
\* truthy and else the value of the message field, if the value so chosen
\* is a non-blank string; else the trimmed text of the response if that is
\* not empty; else "HTTP <status>". It is never empty or blank.
C24_MessageChosen ==
  \A s \in Slots :
    Called(s, "_extract_error_message") =>
      LET response == call[s].args.first
          chosen == Or(Field(response, <<"error">>), Field(response, <<"message">>))
      IN /\ call[s].result.value.s =
              (IF UsableNamespace(chosen) THEN chosen.s ELSE TextOrStatus(response))
         /\ Strip(call[s].result.value.s) # <<>>

C24_Witness ==
  \E s \in Slots :
    /\ Called(s, "_extract_error_message")
    /\ Field(call[s].args.first, <<"error">>) = Str(<<" ", " ">>)
    /\ Field(call[s].args.first, <<"message">>) = Str(<<"busy">>)
    /\ call[s].result = Return(Str(<<"{", "...", "}">>))

\* =============================================================== health
\* health has been called and the service has answered with a success
Answered(s) ==
  /\ Called(s, "health")
  /\ call[s].data.kind = "return"

Healthy(status) == IsStr(status) /\ status.s = <<"healthy">>

\* C25 as stated: health raises the base TidepoolError for every object
\* with a status string other than "healthy" and for every reply that is
\* not an object, and returns the body only when the status is "healthy".
C25_HealthyOnly ==
  \A s \in Slots :
    Answered(s) =>
      LET body == call[s].data.value
          r == call[s].result
      IN /\ (body.t = "dict" /\ IsStr(Get(body, <<"status">>))
               /\ ~Healthy(Get(body, <<"status">>)))
              => (r.kind = "raise" /\ r.exc.cls = "TidepoolError")
         /\ r.kind = "return" => (r.value = body /\ Healthy(Get(body, <<"status">>)))
         /\ body.t # "dict" => (r.kind = "raise" /\ r.exc.cls = "TidepoolError")

\* C25: health raises the base TidepoolError for every reply that is not
\* an object and for every object whose status is truthy (a string that is
\* not empty, a number that is not zero, true) and is not "healthy"; it
\* returns the body when the status is "healthy" and when the object
\* reports no status (the key is missing, or its value is null, "", 0 or
\* false).
C25_UnhealthyOnly ==
  \A s \in Slots :
    Answered(s) =>
      LET body == call[s].data.value
          r == call[s].result
      IN IF body.t = "dict"
            /\ (Healthy(Get(body, <<"status">>)) \/ Falsy(Get(body, <<"status">>)))
         THEN r = Return(body)
         ELSE r.kind = "raise" /\ r.exc.cls = "TidepoolError"

C25_Witness ==
  \E s \in Slots :
    /\ Answered(s)
    /\ call[s].data.value.t = "dict"
    /\ ~HasKey(call[s].data.value, <<"status">>)
    /\ call[s].result = Return(call[s].data.value)

\* ============================================================== handles
Handles(s) == <<client[s].query_client, client[s].ingest_client>>

\* C26: a client has two executor handles, query and ingest; once its
\* with / async with block has been left, after a normal return or by the
\* exception of an operation, both are released, and until then both are
\* open: no operation releases a handle.
C26_HandlesReleased ==
  \A s \in Slots :
    Constructed(s) =>
      IF call[s].pc = "exited" THEN Handles(s) = <<"closed", "closed">>
      ELSE Handles(s) = <<"open", "open">>

C26_Witness ==
  \E s \in Slots :
    /\ call[s].pc = "exited"
    /\ call[s].result.kind = "raise"
    /\ call[s].result.exc.cls = "ServiceUnavailableError"
    /\ Len(sent[s]) = client[s].max_retries + 1
    /\ Handles(s) = <<"closed", "closed">>

\* ============================================================= requests
\* C27: each attempt of a logical call hands one request to an executor,
\* and every attempt of the call hands over the request of its first
\* attempt: the same executor, method, path and JSON body, which are the
\* ones the operation built from its arguments.
C27_SameRequest ==
  \A s \in Slots :
    /\ Len(sent[s]) = Len(statuses[s])
    /\ \A i \in 1..Len(sent[s]) :
         /\ sent[s][i] = sent[s][1]
         /\ sent[s][i] = Prepare(client[s], call[s].args).request
         /\ sent[s][i].executor \in {"query", "ingest"}

C27_Witness ==
  \E s \in Slots :
    /\ call[s].args.op = "upsert"
    /\ Len(sent[s]) = 4
    /\ sent[s][4].executor = "ingest" /\ sent[s][4].method = "POST"
    /\ sent[s][4].json_body.t = "dict"
    /\ sent[s][4] = sent[s][1]

\* ========================================================== termination
InFlight(s) == call[s].pc \in {"attempt", "sleeping"}

\* C28: when the executor answers every attempt and every suspension
\* ends, a logical call that is in flight eventually finishes, with a
\* result or an error, whatever the executor answers.
C28_Terminates == \A s \in Slots : InFlight(s) ~> (call[s].pc = "done")

C28_Witness ==
  \E s \in Slots :
    /\ call[s].pc = "done" /\ call[s].result.kind = "raise"
    /\ client[s].max_retries = MaxRetriesBound
    /\ Len(statuses[s]) = MaxRetriesBound + 1
    /\ \A i \in 1..Len(statuses[s]) : statuses[s][i] = 503

\* ======================================================== retry fields
\* C29: whatever is assigned to max_retries, base_delay and max_delay
\* while a call is in flight, the call is suspended only when another
\* attempt follows, and a call that met nothing but retryable failures
\* finishes after max_retries + 1 attempts, max_retries as it was when the
\* call entered the retry loop.
C29_PerCallBookkeeping ==
  \A s \in Slots :
    /\ call[s].pc = "sleeping" => call[s].attempt + 1 < call[s].iterations
    /\ (call[s].pc = "done" /\ statuses[s] # <<>> /\ AllRetryable(statuses[s]))
         => Len(sent[s]) = call[s].iterations

\* ============================================================= taxonomy
\* C30: whatever the service replies, a public operation that has reached
\* it returns a result or raises TidepoolError, ValidationError,
\* NotFoundError or ServiceUnavailableError; no other error escapes.
C30_TaxonomyClosed ==
  \A s \in Slots :
    (call[s].pc = "done" /\ call[s].args.op \in PublicOps /\ sent[s] # <<>>) =>
      \/ call[s].result.kind = "return"
      \/ call[s].result.kind = "raise" /\ IsTidepoolError(call[s].result.exc)

====
